---- MODULE Spec2Model ----
(***************************************************************************)
(* A model of the core of the custom-GPT desktop agent (C++ variant): the  *)
(* minimal JSON document model with its recursive-descent parser, and the  *)
(* ClaudeAgent session that loads agent configurations, assembles prompts  *)
(* from the conversation history and runs an external CLI provider.        *)
(*                                                                         *)
(* A std::string is a sequence of characters; a character is a TLA+ string *)
(* of length one, and the control characters that TLA+ cannot write are    *)
(* named atoms (CH_BS, CH_FF, CH_CR, CH_VT).                               *)
(***************************************************************************)
EXTENDS Integers, Sequences, FiniteSets, TLC

(***************************************************************************)
(* Characters and text                                                     *)
(***************************************************************************)
\* What Parser::peek and Parser::advance return at the end of the input.
NUL == "NUL"
CH_NL == "\n"
CH_TAB == "\t"
CH_BS == "BS"
CH_FF == "FF"
CH_CR == "CR"
CH_VT == "VT"
CH_DQ == "\""
CH_SQ == "'"
CH_BSL == "\\"

\* std::isspace in the "C" locale.
IsSpace(c) == c \in {" ", CH_TAB, CH_NL, CH_VT, CH_FF, CH_CR}

Digits == <<"0","1","2","3","4","5","6","7","8","9">>

\* std::isdigit.
IsDigit(c) == \E i \in 1..10 : Digits[i] = c

DigitVal(c) == (CHOOSE i \in 1..10 : Digits[i] = c) - 1

Min(a, b) == IF a < b THEN a ELSE b

\* std::string::find(char) != npos.
Contains(s, c) == \E i \in 1..Len(s) : s[i] = c

\* std::string::find(prefix) == 0.
StartsWith(s, prefix) ==
    /\ Len(s) >= Len(prefix)
    /\ SubSeq(s, 1, Len(prefix)) = prefix

\* std::string::substr(pos, n), with pos counted from 1.
Substr(s, pos, n) == SubSeq(s, pos, Min(pos + n - 1, Len(s)))

RECURSIVE NatToText(_)
NatToText(n) ==
    IF n < 10 THEN <<Digits[n + 1]>>
    ELSE NatToText(n \div 10) \o <<Digits[(n % 10) + 1]>>

\* std::to_string(int).
IntToText(n) == IF n < 0 THEN <<"-">> \o NatToText(-n) ELSE NatToText(n)

(***************************************************************************)
(* The messages of the exceptions the document model throws (e.what()).    *)
(***************************************************************************)
WhatNotString ==
    <<"V","a","l","u","e"," ","i","s"," ","n","o","t"," ","a"," ","s","t","r","i","n","g">>

WhatNotNumber ==
    <<"V","a","l","u","e"," ","i","s"," ","n","o","t"," ","a"," ","n","u","m","b","e","r">>

WhatNotObject ==
    <<"V","a","l","u","e"," ","i","s"," ","n","o","t"," ","a","n"," ","o","b","j","e","c","t">>

WhatNotArray ==
    <<"V","a","l","u","e"," ","i","s"," ","n","o","t"," ","a","n"," ","a","r","r","a","y">>

WhatInvalidChar ==
    <<"I","n","v","a","l","i","d"," ","J","S","O","N"," ","c","h","a","r","a","c","t","e","r">>

WhatExpectedQuote ==
    <<"E","x","p","e","c","t","e","d"," ","'","\"","'">>

WhatUnterminated ==
    <<"U","n","t","e","r","m","i","n","a","t","e","d"," ","s","t","r","i","n","g">>

WhatInvalidNumber ==
    <<"I","n","v","a","l","i","d"," ","n","u","m","b","e","r">>

WhatInvalidBoolean ==
    <<"I","n","v","a","l","i","d"," ","b","o","o","l","e","a","n"," ","v","a","l","u","e">>

WhatInvalidNull ==
    <<"I","n","v","a","l","i","d"," ","n","u","l","l"," ","v","a","l","u","e">>

WhatExpectedBrace ==
    <<"E","x","p","e","c","t","e","d"," ","'","{","'">>

WhatExpectedColon ==
    <<"E","x","p","e","c","t","e","d"," ","'",":","'">>

WhatExpectedCommaBrace ==
    <<"E","x","p","e","c","t","e","d"," ","'",",","'"," ","o","r"," ","'","}","'">>

WhatExpectedBracket ==
    <<"E","x","p","e","c","t","e","d"," ","'","[","'">>

WhatExpectedCommaBracket ==
    <<"E","x","p","e","c","t","e","d"," ","'",",","'"," ","o","r"," ","'","]","'">>

WhatUnableToOpen ==
    <<"U","n","a","b","l","e"," ","t","o"," ","o","p","e","n"," ","f","i","l","e",":"," ">>

S_true ==
    <<"t","r","u","e">>

S_false ==
    <<"f","a","l","s","e">>

S_null ==
    <<"n","u","l","l">>

(***************************************************************************)
(* JSON values (json::Value and its subclasses).  A number is the decimal  *)
(* m * 10^e it was written as, normalised so that m has no trailing zero.  *)
(***************************************************************************)
JString(s) == [type |-> "STRING", str |-> s]

JNumber(m, e) == [type |-> "NUMBER", m |-> m, e |-> e]

JBoolean(b) == [type |-> "BOOLEAN", bool |-> b]

JNull == [type |-> "NULL_VALUE"]

\* json::object(): an ObjectValue with no members.
JObject == [type |-> "OBJECT", obj |-> <<>>]

\* json::array(): an ArrayValue with no elements.
JArray == [type |-> "ARRAY", arr |-> <<>>]

\* ObjectValue::set as an insertion: a key already present keeps its value.
ObjectSet_KeepFirst(o, key, value) ==
    [type |-> "OBJECT",
     obj |-> [k \in (DOMAIN o.obj) \cup {key} |->
                IF k \in DOMAIN o.obj THEN o.obj[k] ELSE value]]

\* ObjectValue::set: value_[key] = value (std::map: an existing key is overwritten).
ObjectSet(o, key, value) ==
    [type |-> "OBJECT",
     obj |-> [k \in (DOMAIN o.obj) \cup {key} |-> IF k = key THEN value ELSE o.obj[k]]]

\* ArrayValue::push.
ArrayPush(a, value) == [type |-> "ARRAY", arr |-> Append(a.arr, value)]

\* ObjectValue::has.
ObjectHas(o, key) == key \in DOMAIN o.obj

RECURSIVE Pow10(_)
Pow10(n) == IF n = 0 THEN 1 ELSE 10 * Pow10(n - 1)

RECURSIVE Normalise(_, _)
Normalise(m, e) ==
    IF m = 0 THEN JNumber(0, 0)
    ELSE IF m % 10 = 0 THEN Normalise(m \div 10, e + 1)
    ELSE JNumber(m, e)

\* json::number(double) of an integral value.
JInt(n) == Normalise(n, 0)

\* static_cast<int>(double): truncation toward zero.
NumberToInt(v) ==
    IF v.e >= 0 THEN v.m * Pow10(v.e)
    ELSE IF v.m >= 0 THEN v.m \div Pow10(-v.e)
    ELSE -((-v.m) \div Pow10(-v.e))

(***************************************************************************)
(* What a call yields: a value, or an exception thrown (std::runtime_error *)
(* with its message).  The parser's results carry the cursor as well.      *)
(***************************************************************************)
Ret(v) == [thr |-> FALSE, val |-> v, what |-> <<>>]

Throw(msg) == [thr |-> TRUE, val |-> JNull, what |-> msg]

Parsed(v, pos) == [thr |-> FALSE, val |-> v, what |-> <<>>, pos |-> pos]

ParseError(msg) == [thr |-> TRUE, val |-> JNull, what |-> msg, pos |-> 0]

(***************************************************************************)
(* The parser (class Parser).  pos counts from 1: pos = pos_ + 1.          *)
(***************************************************************************)
\* Parser::peek.
Peek(json, pos) == IF pos > Len(json) THEN NUL ELSE json[pos]

\* The cursor after Parser::advance.
Advance(json, pos) == IF pos > Len(json) THEN pos ELSE pos + 1

RECURSIVE skipWhitespace(_, _)
skipWhitespace(json, pos) ==
    IF pos <= Len(json) /\ IsSpace(json[pos]) THEN skipWhitespace(json, pos + 1)
    ELSE pos

\* The escape switch of parseString: the character a backslash escape stands for.
Unescape(c) ==
    CASE c = "b" -> CH_BS
      [] c = "f" -> CH_FF
      [] c = "n" -> CH_NL
      [] c = "r" -> CH_CR
      [] c = "t" -> CH_TAB
      [] OTHER -> c

\* The number of backslashes that stand in a row just before position i, from
\* position pos on.
RECURSIVE BackslashRun(_, _, _)
BackslashRun(json, pos, i) ==
    IF i > pos /\ json[i - 1] = CH_BSL THEN 1 + BackslashRun(json, pos, i - 1) ELSE 0

\* The while loop of parseString, entered at pos with result empty.  The loop
\* takes a backslash together with the character after it, so the character
\* at i is the second of such a pair when an odd number of backslashes stand
\* just before it, and the string ends at the first quote that is not.
parseStringLoop(json, pos, result) ==
    LET taken(i) == BackslashRun(json, pos, i) % 2 = 1
        quotes == {i \in pos..Len(json) : json[i] = CH_DQ /\ ~taken(i)}
        end == CHOOSE i \in quotes : \A j \in quotes : i <= j
        kept == SelectSeq([k \in 1..(end - pos) |-> pos + k - 1],
                          LAMBDA i : json[i] # CH_BSL \/ taken(i))
    IN  IF quotes = {} THEN ParseError(WhatUnterminated)
        ELSE Parsed(JString(result \o [k \in 1..Len(kept) |->
                                          IF taken(kept[k]) THEN Unescape(json[kept[k]])
                                          ELSE json[kept[k]]]),
                    end + 1)

parseString(json, pos) ==
    IF Peek(json, pos) # CH_DQ THEN ParseError(WhatExpectedQuote)
    ELSE parseStringLoop(json, pos + 1, <<>>)

\* while (std::isdigit(peek())) advance();
RECURSIVE skipDigits(_, _)
skipDigits(json, pos) ==
    IF IsDigit(Peek(json, pos)) THEN skipDigits(json, pos + 1) ELSE pos

RECURSIVE DigitsToNat(_)
DigitsToNat(ds) ==
    IF ds = <<>> THEN 0
    ELSE 10 * DigitsToNat(SubSeq(ds, 1, Len(ds) - 1)) + DigitVal(ds[Len(ds)])

\* std::stod on the text parseNumber cut out: sign, digits, fraction, and an
\* exponent that counts only when it has a digit.
stod(neg, intDigits, fracDigits, expNeg, expDigits) ==
    LET mant == DigitsToNat(intDigits \o fracDigits)
        ex == DigitsToNat(expDigits)
        e10 == (IF expNeg THEN -ex ELSE ex) - Len(fracDigits)
    IN  Normalise(IF neg THEN -mant ELSE mant, e10)

parseNumber(json, pos) ==
    LET neg == Peek(json, pos) = "-"
        p1 == IF neg THEN pos + 1 ELSE pos
        p2 == skipDigits(json, p1)
        hasFrac == Peek(json, p2) = "."
        p3 == IF hasFrac THEN skipDigits(json, p2 + 1) ELSE p2
        hasExp == Peek(json, p3) \in {"e", "E"}
        hasSign == hasExp /\ Peek(json, p3 + 1) \in {"+", "-"}
        p4 == IF hasSign THEN p3 + 2 ELSE IF hasExp THEN p3 + 1 ELSE p3
        p5 == IF hasExp THEN skipDigits(json, p4) ELSE p3
    IN  IF ~IsDigit(Peek(json, p1)) THEN ParseError(WhatInvalidNumber)
        ELSE Parsed(stod(neg,
                         SubSeq(json, p1, p2 - 1),
                         IF hasFrac THEN SubSeq(json, p2 + 1, p3 - 1) ELSE <<>>,
                         hasSign /\ Peek(json, p3 + 1) = "-",
                         IF hasExp THEN SubSeq(json, p4, p5 - 1) ELSE <<>>),
                    p5)

parseBoolean(json, pos) ==
    IF Substr(json, pos, 4) = S_true THEN Parsed(JBoolean(TRUE), pos + 4)
    ELSE IF Substr(json, pos, 5) = S_false THEN Parsed(JBoolean(FALSE), pos + 5)
    ELSE ParseError(WhatInvalidBoolean)

parseNull(json, pos) ==
    IF Substr(json, pos, 4) = S_null THEN Parsed(JNull, pos + 4)
    ELSE ParseError(WhatInvalidNull)

RECURSIVE parseValue(_, _)
RECURSIVE parseObjectLoop(_, _, _)
RECURSIVE parseArrayLoop(_, _, _)

\* The while (true) loop of parseObject.
parseObjectLoop(json, pos, obj) ==
    LET key == parseString(json, skipWhitespace(json, pos))
        p2 == skipWhitespace(json, key.pos)
        value == parseValue(json, skipWhitespace(json, Advance(json, p2)))
        p4 == skipWhitespace(json, value.pos)
        c == Peek(json, p4)
        obj2 == ObjectSet(obj, key.val.str, value.val)
    IN  IF key.thr THEN key
        ELSE IF Peek(json, p2) # ":" THEN ParseError(WhatExpectedColon)
        ELSE IF value.thr THEN value
        ELSE IF c = "}" THEN Parsed(obj2, Advance(json, p4))
        ELSE IF c # "," THEN ParseError(WhatExpectedCommaBrace)
        ELSE parseObjectLoop(json, Advance(json, p4), obj2)

parseObject(json, pos) ==
    LET p1 == skipWhitespace(json, Advance(json, pos)) IN
    IF Peek(json, pos) # "{" THEN ParseError(WhatExpectedBrace)
    ELSE IF Peek(json, p1) = "}" THEN Parsed(JObject, Advance(json, p1))
    ELSE parseObjectLoop(json, p1, JObject)

\* The while (true) loop of parseArray.
parseArrayLoop(json, pos, arr) ==
    LET value == parseValue(json, skipWhitespace(json, pos))
        p2 == skipWhitespace(json, value.pos)
        c == Peek(json, p2)
        arr2 == ArrayPush(arr, value.val)
    IN  IF value.thr THEN value
        ELSE IF c = "]" THEN Parsed(arr2, Advance(json, p2))
        ELSE IF c # "," THEN ParseError(WhatExpectedCommaBracket)
        ELSE parseArrayLoop(json, Advance(json, p2), arr2)

parseArray(json, pos) ==
    LET p1 == skipWhitespace(json, Advance(json, pos)) IN
    IF Peek(json, pos) # "[" THEN ParseError(WhatExpectedBracket)
    ELSE IF Peek(json, p1) = "]" THEN Parsed(JArray, Advance(json, p1))
    ELSE parseArrayLoop(json, p1, JArray)

parseValue(json, pos) ==
    LET p == skipWhitespace(json, pos)
        c == Peek(json, p)
    IN  CASE c = CH_DQ -> parseString(json, p)
          [] c = "{" -> parseObject(json, p)
          [] c = "[" -> parseArray(json, p)
          [] c \in {"t", "f"} -> parseBoolean(json, p)
          [] c = "n" -> parseNull(json, p)
          [] OTHER -> IF c = "-" \/ IsDigit(c) THEN parseNumber(json, p)
                      ELSE ParseError(WhatInvalidChar)

\* json::parse: Parser(json).parse().  The cursor is dropped: what follows the
\* value in the text is never looked at.
parse(json) ==
    LET r == parseValue(json, skipWhitespace(json, 1)) IN
    IF r.thr THEN Throw(r.what) ELSE Ret(r.val)

(***************************************************************************)
(* Serialisation (Value::toString of each subclass, json::saveToFile).     *)
(***************************************************************************)
\* The characters of the model's texts in the order of their codes (the order
\* of std::map's keys).
AsciiOrder ==
    <<NUL, CH_BS, CH_TAB, CH_NL, CH_VT, CH_FF, CH_CR, " ", "!", CH_DQ, "#", "$", "%", "&", "'",
      "(", ")", "*", "+", ",", "-", ".", "/", "0", "1", "2", "3", "4", "5", "6", "7", "8", "9",
      ":", ";", "<", "=", ">", "?", "@", "A", "B", "C", "D", "E", "F", "G", "H", "I", "J", "K",
      "L", "M", "N", "O", "P", "Q", "R", "S", "T", "U", "V", "W", "X", "Y", "Z", "[", CH_BSL,
      "]", "^", "_", "a", "b", "c", "d", "e", "f", "g", "h", "i", "j", "k", "l", "m", "n",
      "o", "p", "q", "r", "s", "t", "u", "v", "w", "x", "y", "z", "{", "|", "}", "~">>

CharCode(c) == CHOOSE i \in 1..Len(AsciiOrder) : AsciiOrder[i] = c

\* std::less<std::string>: a < b.
RECURSIVE KeyLess(_, _)
KeyLess(a, b) ==
    IF b = <<>> THEN FALSE
    ELSE IF a = <<>> THEN TRUE
    ELSE IF a[1] = b[1] THEN KeyLess(Tail(a), Tail(b))
    ELSE CharCode(a[1]) < CharCode(b[1])

\* The keys of a std::map in iteration order.
RECURSIVE SortedKeys(_)
SortedKeys(keys) ==
    IF keys = {} THEN <<>>
    ELSE LET first == CHOOSE k \in keys : \A other \in keys \ {k} : KeyLess(k, other)
         IN  <<first>> \o SortedKeys(keys \ {first})

Zeros(n) == [i \in 1..n |-> "0"]

RECURSIVE StripTrailingZeros(_)
StripTrailingZeros(ds) ==
    IF Len(ds) > 1 /\ ds[Len(ds)] = "0" THEN StripTrailingZeros(SubSeq(ds, 1, Len(ds) - 1))
    ELSE ds

\* The decimal digits of INT_MAX.
IntMaxDigits == <<"2","1","4","7","4","8","3","6","4","7">>

\* a <= b for two digit sequences of the same length.
RECURSIVE DigitsLeq(_, _)
DigitsLeq(a, b) ==
    IF a = <<>> THEN TRUE
    ELSE IF a[1] = b[1] THEN DigitsLeq(Tail(a), Tail(b))
    ELSE DigitVal(a[1]) < DigitVal(b[1])

Abs(n) == IF n < 0 THEN -n ELSE n

\* The value has no fractional part.
IsIntegral(v) == v.e >= 0

\* The value, truncated, is a value of int: static_cast<int> is defined.
\* (A negative value is held to the same limit as a positive one.)
FitsInt(v) ==
    LET digits == Len(NatToText(Abs(v.m))) + (IF v.e >= 0 THEN v.e ELSE 0) IN
    \/ v.e < 0
    \/ digits < Len(IntMaxDigits)
    \/ digits = Len(IntMaxDigits) /\ DigitsLeq(NatToText(Abs(v.m)) \o Zeros(v.e), IntMaxDigits)

\* oss << value_ for a double: the default formatting, %g with six
\* significant digits (the value is rounded to them, half to even).
formatDouble(v) ==
    LET ds == NatToText(Abs(v.m))
        n == Len(ds)
        cut == Pow10(IF n > 6 THEN n - 6 ELSE 0)
        q == Abs(v.m) \div cut
        r == Abs(v.m) % cut
        up == n > 6 /\ (2 * r > cut \/ (2 * r = cut /\ q % 2 = 1))
        rounded == IF up THEN q + 1 ELSE q
        carry == n > 6 /\ rounded = 1000000
        sig == StripTrailingZeros(NatToText(IF carry THEN 1 ELSE rounded))
        k == Len(sig)
        X == n - 1 + v.e + (IF carry THEN 1 ELSE 0)
        sign == IF v.m < 0 THEN <<"-">> ELSE <<>>
        expText == (IF X < 0 THEN <<"-">> ELSE <<"+">>)
                   \o (IF Abs(X) < 10 THEN <<"0">> ELSE <<>>) \o NatToText(Abs(X))
    IN  IF v.m = 0 THEN <<"0">>
        ELSE IF X < -4 \/ X >= 6
        THEN sign \o <<sig[1]>> \o (IF k > 1 THEN <<".">> \o SubSeq(sig, 2, k) ELSE <<>>)
             \o <<"e">> \o expText
        ELSE IF X >= 0
        THEN sign \o (IF k <= X + 1 THEN sig \o Zeros(X + 1 - k)
                      ELSE SubSeq(sig, 1, X + 1) \o <<".">> \o SubSeq(sig, X + 2, k))
        ELSE sign \o <<"0", ".">> \o Zeros(-X - 1) \o sig

\* What static_cast<int>(value_) does to a value no int can hold (undefined
\* behaviour): "unequal", the converted int differs from value_ and the
\* comparison fails; "saturated", the int is INT_MAX and is printed.
CastOutcomes == {"unequal", "saturated"}

\* NumberValue::toString.
numberToString(v, cast) ==
    IF FitsInt(v)
    THEN IF IsIntegral(v) THEN IntToText(v.m * Pow10(v.e)) ELSE formatDouble(v)
    ELSE IF cast = "saturated" THEN (IF v.m < 0 THEN <<"-">> ELSE <<>>) \o IntMaxDigits
    ELSE formatDouble(v)

\* StringValue::toString: the text between two quotes, as it is.
stringToString(s) == <<CH_DQ>> \o s \o <<CH_DQ>>

\* Value::toString, with the loops of ObjectValue::toString (over the keys from
\* the i-th on) and ArrayValue::toString (over the elements from the i-th on).
RECURSIVE toString(_, _)
RECURSIVE membersToString(_, _, _, _)
RECURSIVE elementsToString(_, _, _)
membersToString(obj, keys, i, cast) ==
    IF i > Len(keys) THEN <<>>
    ELSE (IF i > 1 THEN <<",">> ELSE <<>>)
         \o stringToString(keys[i]) \o <<":">> \o toString(obj[keys[i]], cast)
         \o membersToString(obj, keys, i + 1, cast)

elementsToString(arr, i, cast) ==
    IF i > Len(arr) THEN <<>>
    ELSE (IF i > 1 THEN <<",">> ELSE <<>>) \o toString(arr[i], cast)
         \o elementsToString(arr, i + 1, cast)

toString(value, cast) ==
    CASE value.type = "STRING" -> stringToString(value.str)
      [] value.type = "NUMBER" -> numberToString(value, cast)
      [] value.type = "BOOLEAN" -> IF value.bool THEN S_true ELSE S_false
      [] value.type = "NULL_VALUE" -> S_null
      [] value.type = "OBJECT" ->
            <<"{">> \o membersToString(value.obj, SortedKeys(DOMAIN value.obj), 1, cast)
            \o <<"}">>
      [] value.type = "ARRAY" -> <<"[">> \o elementsToString(value.arr, 1, cast) \o <<"]">>

(***************************************************************************)
(* The literal texts of the session (member names, defaults, the pieces of *)
(* the prompts, the error strings, the command-line tokens, the paths).    *)
(***************************************************************************)
K_name ==
    <<"n","a","m","e">>

K_description ==
    <<"d","e","s","c","r","i","p","t","i","o","n">>

K_instructions ==
    <<"i","n","s","t","r","u","c","t","i","o","n","s">>

K_conversation_starters ==
    <<"c","o","n","v","e","r","s","a","t","i","o","n","_","s","t","a","r","t","e","r","s">>

K_conversation_memory ==
    <<"c","o","n","v","e","r","s","a","t","i","o","n","_","m","e","m","o","r","y">>

K_system_prompt ==
    <<"s","y","s","t","e","m","_","p","r","o","m","p","t">>

K_max_tokens ==
    <<"m","a","x","_","t","o","k","e","n","s">>

K_temperature ==
    <<"t","e","m","p","e","r","a","t","u","r","e">>

DefaultName ==
    <<"C","u","s","t","o","m"," ","A","I"," ","A","g","e","n","t">>

DefaultDescription ==
    <<"A"," ","h","e","l","p","f","u","l"," ","A","I"," ","a","s","s","i","s","t","a","n","t">>

DefaultInstructions ==
    <<"Y","o","u"," ","a","r","e"," ","a"," ","h","e","l","p","f","u","l"," ","A","I"," ","a",
      "s","s","i","s","t","a","n","t",".">>

CreatedInstructions ==
    <<"Y","o","u"," ","a","r","e"," ","a"," ","h","e","l","p","f","u","l"," ","A","I"," ","a",
      "s","s","i","s","t","a","n","t","."," ","P","l","e","a","s","e"," ","p","r","o","v","i",
      "d","e"," ","c","l","e","a","r",","," ","c","o","n","c","i","s","e",","," ","a","n","d",
      " ","a","c","c","u","r","a","t","e"," ","r","e","s","p","o","n","s","e","s",".","\n","\n",
      "Y","o","u","r"," ","p","r","i","m","a","r","y"," ","c","a","p","a","b","i","l","i","t",
      "i","e","s"," ","i","n","c","l","u","d","e",":","\n","-"," ","A","n","s","w","e","r","i",
      "n","g"," ","q","u","e","s","t","i","o","n","s"," ","a","c","r","o","s","s"," ","v","a",
      "r","i","o","u","s"," ","t","o","p","i","c","s","\n","-"," ","H","e","l","p","i","n","g",
      " ","w","i","t","h"," ","p","r","o","b","l","e","m","-","s","o","l","v","i","n","g","\n",
      "-"," ","P","r","o","v","i","d","i","n","g"," ","e","x","p","l","a","n","a","t","i","o",
      "n","s"," ","a","n","d"," ","g","u","i","d","a","n","c","e","\n","-"," ","A","s","s","i",
      "s","t","i","n","g"," ","w","i","t","h"," ","c","o","d","e"," ","a","n","d"," ","t","e",
      "c","h","n","i","c","a","l"," ","i","s","s","u","e","s","\n","\n","A","l","w","a","y","s",
      " ","b","e"," ","p","o","l","i","t","e",","," ","p","r","o","f","e","s","s","i","o","n",
      "a","l",","," ","a","n","d"," ","h","e","l","p","f","u","l"," ","i","n"," ","y","o","u",
      "r"," ","r","e","s","p","o","n","s","e","s",".">>

Starter1 ==
    <<"H","o","w"," ","c","a","n"," ","I"," ","h","e","l","p"," ","y","o","u"," ","t","o","d",
      "a","y","?">>

Starter2 ==
    <<"W","h","a","t"," ","w","o","u","l","d"," ","y","o","u"," ","l","i","k","e"," ","t","o",
      " ","w","o","r","k"," ","o","n","?">>

Starter3 ==
    <<"T","e","l","l"," ","m","e"," ","a","b","o","u","t"," ","y","o","u","r"," ","p","r","o",
      "j","e","c","t"," ","a","n","d"," ","I","'","l","l"," ","a","s","s","i","s","t"," ","y",
      "o","u",".">>

Starter4 ==
    <<"W","h","a","t"," ","q","u","e","s","t","i","o","n","s"," ","d","o"," ","y","o","u"," ",
      "h","a","v","e"," ","f","o","r"," ","m","e","?">>

S_YouAre ==
    <<"Y","o","u"," ","a","r","e"," ">>

S_DotNlNl ==
    <<".","\n","\n">>

S_Description ==
    <<"D","e","s","c","r","i","p","t","i","o","n",":"," ">>

S_NlNl ==
    <<"\n","\n">>

S_Instructions ==
    <<"I","n","s","t","r","u","c","t","i","o","n","s",":","\n">>

S_PleaseFollow ==
    <<"P","l","e","a","s","e"," ","f","o","l","l","o","w"," ","t","h","e","s","e"," ","i","n",
      "s","t","r","u","c","t","i","o","n","s"," ","c","a","r","e","f","u","l","l","y"," ","a",
      "n","d"," ","e","m","b","o","d","y"," ","t","h","e"," ","r","o","l","e"," ","d","e","s",
      "c","r","i","b","e","d"," ","a","b","o","v","e",".">>

S_PreviousConversation ==
    <<"P","r","e","v","i","o","u","s"," ","c","o","n","v","e","r","s","a","t","i","o","n",":",
      "\n">>

S_Human ==
    <<"H","u","m","a","n",":"," ">>

S_Assistant ==
    <<"A","s","s","i","s","t","a","n","t",":"," ">>

S_Nl ==
    <<"\n">>

S_CurrentMessage ==
    <<"\n","C","u","r","r","e","n","t"," ","m","e","s","s","a","g","e",":","\n">>

S_User ==
    <<"\n","\n","U","s","e","r",":"," ">>

S_Error ==
    <<"E","r","r","o","r">>

S_ErrorColon ==
    <<"E","r","r","o","r",":"," ">>

S_CliNotAvailable ==
    <<" ","C","L","I"," ","n","o","t"," ","a","v","a","i","l","a","b","l","e">>

S_UnknownProvider ==
    <<"E","r","r","o","r",":"," ","U","n","k","n","o","w","n"," ","C","L","I"," ","p","r","o",
      "v","i","d","e","r">>

S_ErrorCommunicating ==
    <<"E","r","r","o","r"," ","c","o","m","m","u","n","i","c","a","t","i","n","g"," ","w","i",
      "t","h"," ">>

S_CliColon ==
    <<" ","C","L","I",":"," ">>

S_EmptyCommand ==
    <<"E","r","r","o","r",":"," ","E","m","p","t","y"," ","c","o","m","m","a","n","d">>

S_StdinRequired ==
    <<"E","r","r","o","r",":"," ","S","t","d","i","n"," ","i","n","p","u","t"," ","r","e","q",
      "u","i","r","e","d"," ","b","u","t"," ","n","o","t"," ","p","r","o","v","i","d","e","d">>

S_FailedToExecute ==
    <<"E","r","r","o","r",":"," ","F","a","i","l","e","d"," ","t","o"," ","e","x","e","c","u",
      "t","e"," ","c","o","m","m","a","n","d">>

S_CommandFailed ==
    <<"E","r","r","o","r",":"," ","C","o","m","m","a","n","d"," ","f","a","i","l","e","d"," ",
      "w","i","t","h"," ","s","t","a","t","u","s"," ">>

S_NoTempFile ==
    <<"E","r","r","o","r",":"," ","C","o","u","l","d"," ","n","o","t"," ","c","r","e","a","t",
      "e"," ","t","e","m","p","o","r","a","r","y"," ","f","i","l","e">>

S_Print ==
    <<"-","-","p","r","i","n","t">>

S_AppendSystemPrompt ==
    <<"-","-","a","p","p","e","n","d","-","s","y","s","t","e","m","-","p","r","o","m","p","t">>

S_Prompt ==
    <<"-","-","p","r","o","m","p","t">>

S_Dash ==
    <<"-">>

S_SpaceDash ==
    <<" ","-">>

S_Redirect ==
    <<" ","<"," ","\"">>

S_QuoteEscape ==
    <<"'","\"","'","\"","'">>

S_claude ==
    <<"c","l","a","u","d","e">>

S_gemini ==
    <<"g","e","m","i","n","i">>

S_auto ==
    <<"a","u","t","o">>

S_UsrLocalBinClaude ==
    <<"/","u","s","r","/","l","o","c","a","l","/","b","i","n","/","c","l","a","u","d","e">>

S_UsrBinClaude ==
    <<"/","u","s","r","/","b","i","n","/","c","l","a","u","d","e">>

S_UsrLocalBinGemini ==
    <<"/","u","s","r","/","l","o","c","a","l","/","b","i","n","/","g","e","m","i","n","i">>

S_UsrBinGemini ==
    <<"/","u","s","r","/","b","i","n","/","g","e","m","i","n","i">>

S_DefaultConfigDir ==
    <<".",".","/","c","o","n","f","i","g","s">>

S_Slash ==
    <<"/">>

S_LastConfig ==
    <<"/",".","l","a","s","t","_","c","o","n","f","i","g">>

S_TmpPrefix ==
    <<"/","t","m","p","/","c","l","a","u","d","e","_","a","g","e","n","t","_">>

S_Txt ==
    <<".","t","x","t">>

(***************************************************************************)
(* Configuration access (ClaudeAgent::getName ... getConversationMemory).  *)
(* A member of an object is never a null pointer: the parser and the       *)
(* setters store allocated values only, so the "&& it->second" tests of    *)
(* the getters always pass.                                                *)
(***************************************************************************)
DefaultMemory == 5

StdinThreshold == 100

\* config_->asObject().find(key), then asString() of the member or the default.
getStringField(config, key, default) ==
    IF config.type # "OBJECT" THEN Throw(WhatNotObject)
    ELSE IF ~ObjectHas(config, key) THEN Ret(default)
    ELSE IF config.obj[key].type # "STRING" THEN Throw(WhatNotString)
    ELSE Ret(config.obj[key].str)

getName(config) == getStringField(config, K_name, DefaultName)

getDescription(config) == getStringField(config, K_description, DefaultDescription)

getInstructions(config) == getStringField(config, K_instructions, DefaultInstructions)

getConversationMemory(config) ==
    IF config.type # "OBJECT" THEN Throw(WhatNotObject)
    ELSE IF ObjectHas(config, K_conversation_memory)
            /\ config.obj[K_conversation_memory].type = "NUMBER"
         THEN Ret(NumberToInt(config.obj[K_conversation_memory]))
         ELSE Ret(DefaultMemory)

createDefaultConfig ==
    LET starters == ArrayPush(ArrayPush(ArrayPush(ArrayPush(JArray,
                        JString(Starter1)), JString(Starter2)), JString(Starter3)),
                        JString(Starter4))
        o1 == ObjectSet(JObject, K_name, JString(DefaultName))
        o2 == ObjectSet(o1, K_description, JString(DefaultDescription))
        o3 == ObjectSet(o2, K_instructions, JString(CreatedInstructions))
        o4 == ObjectSet(o3, K_conversation_starters, starters)
        o5 == ObjectSet(o4, K_system_prompt, JString(<<>>))
        o6 == ObjectSet(o5, K_max_tokens, JInt(4000))
        o7 == ObjectSet(o6, K_temperature, JNumber(7, -1))
    IN  ObjectSet(o7, K_conversation_memory, JInt(5))

getSystemPrompt(config) ==
    LET n == getName(config)
        d == getDescription(config)
        i == getInstructions(config)
    IN  IF n.thr THEN n
        ELSE IF d.thr THEN d
        ELSE IF i.thr THEN i
        ELSE Ret(S_YouAre \o n.val \o S_DotNlNl
                 \o S_Description \o d.val \o S_NlNl
                 \o S_Instructions \o i.val \o S_NlNl
                 \o S_PleaseFollow)

(***************************************************************************)
(* Prompt assembly (ClaudeAgent::buildConversationContext).  A history     *)
(* entry is [user, assistant]; its timestamp is written and never read.    *)
(***************************************************************************)
\* size > static_cast<size_t>(max_history): a negative int converts to a value
\* of at least 2^63, above the size of any vector.
SizeExceeds(size, max_history) == max_history >= 0 /\ size > max_history

\* The for loop: the entries from index i (counted from 1) to the last.
RECURSIVE renderEntries(_, _)
renderEntries(history, i) ==
    IF i > Len(history) THEN <<>>
    ELSE S_Human \o history[i].user \o S_Nl
         \o S_Assistant \o history[i].assistant \o S_Nl
         \o renderEntries(history, i + 1)

buildConversationContext(history, config, current_message, max_history) ==
    LET mem == IF max_history = -1 THEN getConversationMemory(config)
               ELSE Ret(max_history)
        size == Len(history)
        start == IF SizeExceeds(size, mem.val) THEN size - mem.val ELSE 0
    IN  IF history = <<>> THEN Ret(current_message)
        ELSE IF mem.thr THEN mem
        ELSE Ret(S_PreviousConversation \o renderEntries(history, start + 1)
                 \o S_CurrentMessage \o S_Human \o current_message)

(***************************************************************************)
(* Command execution (ClaudeAgent::executeCommand, escapeShellArg).        *)
(***************************************************************************)
\* The for loop of escapeShellArg over the characters lo..hi of arg (halved, so
\* that the evaluation stays shallow on long arguments).
RECURSIVE escapeChars(_, _, _)
escapeChars(arg, lo, hi) ==
    IF lo > hi THEN <<>>
    ELSE IF lo = hi THEN (IF arg[lo] = CH_SQ THEN S_QuoteEscape ELSE <<arg[lo]>>)
    ELSE LET mid == (lo + hi) \div 2 IN
         escapeChars(arg, lo, mid) \o escapeChars(arg, mid + 1, hi)

\* escapeShellArg that puts a backslash before an embedded single quote.
escapeShellArg_Backslash(arg) ==
    LET quoted(c) == IF c = CH_SQ THEN <<CH_BSL, CH_SQ>> ELSE <<c>>
        RECURSIVE chars(_)
        chars(i) == IF i > Len(arg) THEN <<>> ELSE quoted(arg[i]) \o chars(i + 1)
    IN  <<CH_SQ>> \o chars(1) \o <<CH_SQ>>

escapeShellArg(arg) == <<CH_SQ>> \o escapeChars(arg, 1, Len(arg)) \o <<CH_SQ>>

\* for (size_t i = 1; i < end_idx; ++i) cmd += " " + escapeShellArg(command[i]);
RECURSIVE joinEscaped(_, _, _)
joinEscaped(command, i, end_idx) ==
    IF i > end_idx THEN <<>>
    ELSE <<" ">> \o escapeShellArg(command[i]) \o joinEscaped(command, i + 1, end_idx)

\* The command string handed to popen.
buildCommandString(command, use_stdin) ==
    escapeShellArg(command[1])
    \o joinEscaped(command, 2, IF use_stdin THEN Len(command) - 1 ELSE Len(command))
    \o (IF use_stdin THEN S_SpaceDash ELSE <<>>)

\* The exit status pclose reports for a process that exits with code 1.
FailStatus == 256

\* The process id in the temporary file's name.
PidText == <<"4","2">>

TempFile == S_TmpPrefix \o PidText \o S_Txt

\* if (!result.empty() && result.back() == '\n') result.pop_back();
stripTrailingNewline(result) ==
    IF result # <<>> /\ result[Len(result)] = CH_NL
    THEN SubSeq(result, 1, Len(result) - 1)
    ELSE result

\* What the operating system can make of one executeCommand call (oc):
\*   oc.w, oc.r  popen(cmd, "w") and popen(cmd, "r"): "null" (no process), or the
\*               process runs and exits "fail" (non-zero) or "ok" (zero);
\*   oc.tmp      whether the temporary file can be created;
\*   oc.out      what the process writes to its standard output.
OutReply ==
    <<"H","i","!","\n">>

OutErrorWord ==
    <<"E","r","r","o","r","s"," ","a","r","e"," ","v","a","l","u","e","s",".","\n">>

Outputs == {OutReply, OutErrorWord, <<>>}

ProcOutcomes ==
    {[w |-> "null", tmp |-> FALSE, r |-> "null", out |-> <<>>],
     [w |-> "fail", tmp |-> FALSE, r |-> "fail", out |-> <<>>],
     [w |-> "ok", tmp |-> FALSE, r |-> "ok", out |-> <<>>],
     [w |-> "ok", tmp |-> TRUE, r |-> "null", out |-> <<>>],
     [w |-> "ok", tmp |-> TRUE, r |-> "fail", out |-> <<>>]}
    \cup {[w |-> "ok", tmp |-> TRUE, r |-> "ok", out |-> o] : o \in Outputs}

\* What a call did: text (the string returned), launched (the popen calls that
\* started a process, by mode, in order), shell (the last command string given
\* to popen), piped (fwrite sent stdin_input down the "w" pipe), redirected (the
\* last process read the temporary file), tmpCreated and tmpLeft (the temporary
\* file was written / still exists on return), status0 (the last process was
\* waited for and exited with status 0), stdin (the call took the use_stdin
\* branch).
ExecResult(text, launched, shell, tmpCreated, status0) ==
    [text |-> text, launched |-> launched, shell |-> shell,
     piped |-> (launched # <<>> /\ launched[1] = "w"),
     redirected |-> (Len(launched) = 2),
     tmpCreated |-> tmpCreated, tmpLeft |-> FALSE, status0 |-> status0,
     stdin |-> FALSE]

\* executeWithStdin that forgets the temporary file when the redirected process
\* exits with a non-zero status.
executeWithStdin_KeepOnFailure(cmd, cmd_with_redirect, failed, oc) ==
    IF oc.w = "null" THEN ExecResult(S_FailedToExecute, <<>>, cmd, FALSE, FALSE)
    ELSE IF oc.w = "fail" THEN ExecResult(failed, <<"w">>, cmd, FALSE, FALSE)
    ELSE IF ~oc.tmp THEN ExecResult(S_NoTempFile, <<"w">>, cmd, FALSE, FALSE)
    ELSE IF oc.r = "null"
    THEN ExecResult(S_FailedToExecute, <<"w">>, cmd_with_redirect, TRUE, FALSE)
    ELSE IF oc.r = "fail"
    THEN [ExecResult(failed, <<"w", "r">>, cmd_with_redirect, TRUE, FALSE)
             EXCEPT !.tmpLeft = TRUE]
    ELSE ExecResult(stripTrailingNewline(oc.out), <<"w", "r">>, cmd_with_redirect,
                    TRUE, TRUE)

\* The stdin branch of executeCommand (popen "w", then the temporary file and
\* popen "r" with the redirect).
executeWithStdin(cmd, cmd_with_redirect, failed, oc) ==
    IF oc.w = "null" THEN ExecResult(S_FailedToExecute, <<>>, cmd, FALSE, FALSE)
    ELSE IF oc.w = "fail" THEN ExecResult(failed, <<"w">>, cmd, FALSE, FALSE)
    ELSE IF ~oc.tmp THEN ExecResult(S_NoTempFile, <<"w">>, cmd, FALSE, FALSE)
    ELSE IF oc.r = "null"
    THEN ExecResult(S_FailedToExecute, <<"w">>, cmd_with_redirect, TRUE, FALSE)
    ELSE IF oc.r = "fail"
    THEN ExecResult(failed, <<"w", "r">>, cmd_with_redirect, TRUE, FALSE)
    ELSE ExecResult(stripTrailingNewline(oc.out), <<"w", "r">>, cmd_with_redirect,
                    TRUE, TRUE)

\* executeRegular without its test of the exit status: a failed process's
\* output is returned as if it were a reply.
executeRegular_IgnoringStatus(cmd, failed, oc) ==
    IF oc.r = "null" THEN ExecResult(S_FailedToExecute, <<>>, cmd, FALSE, FALSE)
    ELSE ExecResult(stripTrailingNewline(IF oc.r = "ok" THEN oc.out ELSE OutReply),
                    <<"r">>, cmd, FALSE, oc.r = "ok")

\* The regular branch of executeCommand (popen "r").
executeRegular(cmd, failed, oc) ==
    IF oc.r = "null" THEN ExecResult(S_FailedToExecute, <<>>, cmd, FALSE, FALSE)
    ELSE IF oc.r = "fail" THEN ExecResult(failed, <<"r">>, cmd, FALSE, FALSE)
    ELSE ExecResult(stripTrailingNewline(oc.out), <<"r">>, cmd, FALSE, TRUE)

\* executeCommand(command, stdin_input): the set of its possible results, one
\* for each thing the operating system can make of the call.
executeCommand(command, stdin_input) ==
    LET use_stdin == command[Len(command)] = S_Dash
        cmd == buildCommandString(command, use_stdin)
        cmd_with_redirect == cmd \o S_Redirect \o TempFile \o <<CH_DQ>>
        failed == S_CommandFailed \o IntToText(FailStatus)
    IN  IF command = <<>> THEN {ExecResult(S_EmptyCommand, <<>>, <<>>, FALSE, FALSE)}
        ELSE IF use_stdin /\ stdin_input = <<>>
        THEN {ExecResult(S_StdinRequired, <<>>, <<>>, FALSE, FALSE)}
        ELSE IF use_stdin
        THEN {[executeWithStdin(cmd, cmd_with_redirect, failed, oc) EXCEPT !.stdin = TRUE]
              : oc \in ProcOutcomes}
        ELSE {executeRegular(cmd, failed, oc) : oc \in ProcOutcomes}

(***************************************************************************)
(* Provider names and detection.                                           *)
(***************************************************************************)
providerToString(provider) ==
    CASE provider = "CLAUDE" -> S_claude
      [] provider = "GEMINI" -> S_gemini
      [] provider = "AUTO" -> S_auto

\* The first of possible_paths that `which` resolves, or "".
RECURSIVE firstFound(_, _, _)
firstFound(possible_paths, i, resolves) ==
    IF i > Len(possible_paths) THEN <<>>
    ELSE IF possible_paths[i] \in resolves THEN possible_paths[i]
    ELSE firstFound(possible_paths, i + 1, resolves)

findClaudeCli(resolves) ==
    firstFound(<<S_claude, S_UsrLocalBinClaude, S_UsrBinClaude>>, 1, resolves)

findGeminiCli(resolves) ==
    firstFound(<<S_gemini, S_UsrLocalBinGemini, S_UsrBinGemini>>, 1, resolves)

\* The paths the detection loop hands to `which`: each of possible_paths up to
\* and including the first that resolves.
RECURSIVE whichProbes(_, _, _)
whichProbes(possible_paths, i, resolves) ==
    IF i > Len(possible_paths) THEN <<>>
    ELSE IF possible_paths[i] \in resolves THEN <<possible_paths[i]>>
    ELSE <<possible_paths[i]>> \o whichProbes(possible_paths, i + 1, resolves)

\* What one findAvailableCli probes: it runs findClaudeCli and findGeminiCli
\* before it looks at the preference.
findAvailableCliProbes(resolves) ==
    whichProbes(<<S_claude, S_UsrLocalBinClaude, S_UsrBinClaude>>, 1, resolves)
    \o whichProbes(<<S_gemini, S_UsrLocalBinGemini, S_UsrBinGemini>>, 1, resolves)

\* findAvailableCli with a fallback: a specific provider that is not found
\* gives way to the other one.
findAvailableCli_Fallback(cli_provider, resolves) ==
    LET claude_path == findClaudeCli(resolves)
        gemini_path == findGeminiCli(resolves)
    IN  IF claude_path # <<>> /\ (cli_provider # "GEMINI" \/ gemini_path = <<>>)
        THEN [path |-> claude_path, provider |-> "CLAUDE"]
        ELSE IF gemini_path # <<>> THEN [path |-> gemini_path, provider |-> "GEMINI"]
        ELSE [path |-> <<>>, provider |-> "AUTO"]

\* findAvailableCli with the AUTO order reversed: Gemini before Claude.
findAvailableCli_GeminiFirst(cli_provider, resolves) ==
    LET claude_path == findClaudeCli(resolves)
        gemini_path == findGeminiCli(resolves)
        none == [path |-> <<>>, provider |-> "AUTO"]
    IN  IF cli_provider = "CLAUDE"
        THEN IF claude_path # <<>> THEN [path |-> claude_path, provider |-> "CLAUDE"]
             ELSE none
        ELSE IF gemini_path # <<>> THEN [path |-> gemini_path, provider |-> "GEMINI"]
        ELSE IF cli_provider = "AUTO" /\ claude_path # <<>>
        THEN [path |-> claude_path, provider |-> "CLAUDE"]
        ELSE none

\* The pair (path, provider) findAvailableCli returns.
findAvailableCli(cli_provider, resolves) ==
    LET claude_path == findClaudeCli(resolves)
        gemini_path == findGeminiCli(resolves)
        none == [path |-> <<>>, provider |-> "AUTO"]
    IN  IF cli_provider = "CLAUDE"
        THEN IF claude_path # <<>> THEN [path |-> claude_path, provider |-> "CLAUDE"]
             ELSE none
        ELSE IF cli_provider = "GEMINI"
        THEN IF gemini_path # <<>> THEN [path |-> gemini_path, provider |-> "GEMINI"]
             ELSE none
        ELSE IF claude_path # <<>> THEN [path |-> claude_path, provider |-> "CLAUDE"]
        ELSE IF gemini_path # <<>> THEN [path |-> gemini_path, provider |-> "GEMINI"]
        ELSE none

\* useStdin with only its test of the length.
useStdin_LengthOnly(full_message) == Len(full_message) > StdinThreshold

\* The content-shape test of sendToCli (bool use_stdin = ...).
useStdin(full_message) ==
    \/ Len(full_message) > StdinThreshold
    \/ Contains(full_message, CH_NL)
    \/ Contains(full_message, CH_SQ)
    \/ Contains(full_message, CH_DQ)

(***************************************************************************)
(* The world the session runs in: the file system, the environment, the    *)
(* executables `which` resolves, and the inputs the callers choose from.   *)
(***************************************************************************)
\* The longest conversation history the model lets a session build.
MaxHistory == 3

\* The number of characters of the long messages above StdinThreshold.
LongBy == 1

CfgValid ==
    <<"{","\"","n","a","m","e","\"",":","\"","B","o","t","\"",",","\"","d","e","s","c","r","i",
      "p","t","i","o","n","\"",":","\"","D","e","s","c","\"",",","\"","i","n","s","t","r","u",
      "c","t","i","o","n","s","\"",":","\"","I","n","s","t","\"",",","\"","c","o","n","v","e",
      "r","s","a","t","i","o","n","_","s","t","a","r","t","e","r","s","\"",":","[","\"","H","i",
      "\"","]",",","\"","c","o","n","v","e","r","s","a","t","i","o","n","_","m","e","m","o","r",
      "y","\"",":","1","}">>

CfgNegativeMemory ==
    <<"{","\"","n","a","m","e","\"",":","\"","N","e","g","\"",",","\"","d","e","s","c","r","i",
      "p","t","i","o","n","\"",":","\"","D","e","s","c","\"",",","\"","i","n","s","t","r","u",
      "c","t","i","o","n","s","\"",":","\"","I","n","s","t","\"",",","\"","c","o","n","v","e",
      "r","s","a","t","i","o","n","_","s","t","a","r","t","e","r","s","\"",":","[","]",",","\"",
      "c","o","n","v","e","r","s","a","t","i","o","n","_","m","e","m","o","r","y","\"",":","-",
      "2","}">>

CfgNullValues ==
    <<"{","\"","n","a","m","e","\"",":","n","u","l","l",",","\"","d","e","s","c","r","i","p",
      "t","i","o","n","\"",":","n","u","l","l",",","\"","i","n","s","t","r","u","c","t","i","o",
      "n","s","\"",":","n","u","l","l",",","\"","c","o","n","v","e","r","s","a","t","i","o","n",
      "_","s","t","a","r","t","e","r","s","\"",":","n","u","l","l","}">>

CfgMinimal ==
    <<"{","\n"," "," ","\"","n","a","m","e","\"",":"," ","\"","M","i","n","i","m","a","l"," ",
      "T","e","s","t"," ","A","g","e","n","t","\"","\n","}">>

CfgInvalidJson ==
    <<"{"," ","i","n","v","a","l","i","d"," ","j","s","o","n"," ","c","o","n","t","e","n","t",
      " ","}">>

CfgTrailingText ==
    <<"{","\"","n","a","m","e","\"",":","\"","B","o","b","\"",",","\"","d","e","s","c","r","i",
      "p","t","i","o","n","\"",":","\"","D","\"",",","\"","i","n","s","t","r","u","c","t","i",
      "o","n","s","\"",":","\"","I","\"",",","\"","c","o","n","v","e","r","s","a","t","i","o",
      "n","_","s","t","a","r","t","e","r","s","\"",":","[","]","}"," ","t","r","a","i","l","i",
      "n","g">>

CfgArray ==
    <<"[","1","]">>

F_AgentConfig ==
    <<"a","g","e","n","t","_","c","o","n","f","i","g",".","j","s","o","n">>

P_Other ==
    <<"/","d","a","t","a","/","o","t","h","e","r",".","j","s","o","n">>

P_Missing ==
    <<"/","d","a","t","a","/","m","i","s","s","i","n","g",".","j","s","o","n">>

EnvDir ==
    <<"/","e","n","v">>

M_Hello ==
    <<"H","e","l","l","o">>

M_Lines ==
    <<"L","i","n","e","1","\n","L","i","n","e","2">>

M_SingleQuote ==
    <<"i","t","'","s">>

M_DoubleQuote ==
    <<"s","a","y"," ","\"","x","\"">>

Repeat(c, n) == [i \in 1..n |-> c]

\* A plain message of exactly StdinThreshold characters, and a longer one.
M_AtThreshold == Repeat("a", StdinThreshold)

M_Long == Repeat("b", StdinThreshold + LongBy)

File(content) == [exists |-> TRUE, content |-> content]

NoFile == [exists |-> FALSE, content |-> <<>>]

NoEnv == [set |-> FALSE, value |-> <<>>]

EnvSet(value) == [set |-> TRUE, value |-> value]

\* const char* config_dir_env = getenv(...); config_dir_env ? config_dir_env : "../configs"
ConfigDir(env) == IF env.set THEN env.value ELSE S_DefaultConfigDir

\* The constructor's config_file_.
ResolveConfigFile(config_file, env) ==
    IF ~Contains(config_file, "/") /\ Peek(config_file, 1) # "/"
    THEN ConfigDir(env) \o S_Slash \o config_file
    ELSE config_file

\* The constructor's last_config_file_.
LastConfigFile(env) == ConfigDir(env) \o S_LastConfig

FsPaths ==
    {ResolveConfigFile(F_AgentConfig, NoEnv), LastConfigFile(NoEnv),
     ResolveConfigFile(F_AgentConfig, EnvSet(EnvDir)), LastConfigFile(EnvSet(EnvDir)),
     P_Other, TempFile}

Providers == {"AUTO", "CLAUDE", "GEMINI"}

VARIABLES
    fs,                     \* the files: path -> File(content) or NoFile
    configDirEnv,           \* CLAUDE_AGENT_CONFIG_DIR
    resolves,               \* the executable names `which` finds
    pc,                     \* "new" (not constructed), "ready", "crashed"
    config_file_,
    last_config_file_,
    cli_provider_,
    active_provider_,
    cli_path_,
    config_,
    conversation_history_,
    config_store_,          \* the rows of the library dialog's list
    processing_message_,    \* the window's flag: a send is being processed
    response_queue_,        \* the replies handed from the worker to the window
    workers,                \* the detached background threads and where each stands
    config_dialog_,         \* the configuration dialog is shown
    chat_buffer_,           \* the lines of the chat display
    last                    \* what the last call did and returned

vars ==
    <<fs, configDirEnv, resolves, pc, config_file_, last_config_file_, cli_provider_,
      active_provider_, cli_path_, config_, conversation_history_, config_store_,
      processing_message_, response_queue_, workers, config_dialog_, chat_buffer_, last>>

\* The state of the window.
guiVars == <<processing_message_, response_queue_, workers, config_dialog_, chat_buffer_>>

\* The window before any message is sent (processing_message_(false), an empty
\* queue and display).
GuiIdle ==
    /\ processing_message_ = FALSE
    /\ response_queue_ = <<>>
    /\ workers = <<>>
    /\ config_dialog_ = FALSE
    /\ chat_buffer_ = <<>>

\* std::filesystem::exists.
Exists(path) == path \in DOMAIN fs /\ fs[path].exists

\* The record of a call: op and, as the call sets them, thr (an exception left
\* the call), ok (the bool returned), text (the string returned), the
\* arguments, what sendToCli built and ran, undefined (the call's behaviour
\* was undefined), and probed (the paths handed to `which`, in order).
Call(op) ==
    [op |-> op, thr |-> FALSE, ok |-> TRUE, text |-> <<>>, path |-> <<>>,
     source |-> "", message |-> <<>>, usp |-> FALSE, ctxBuilt |-> FALSE,
     caught |-> FALSE, context |-> <<>>, body |-> <<>>, cmd |-> <<>>,
     launched |-> <<>>, shell |-> <<>>, piped |-> FALSE, redirected |-> FALSE,
     tmpCreated |-> FALSE, tmpLeft |-> FALSE, status0 |-> FALSE, stdin |-> FALSE,
     stored |-> FALSE, undefined |-> FALSE, probed |-> <<>>]

(***************************************************************************)
(* Configuration loading.                                                  *)
(***************************************************************************)
\* std::getline: the text before the first newline.
getline(content) ==
    LET newlines == {i \in 1..Len(content) : content[i] = CH_NL} IN
    IF newlines = {} THEN content
    ELSE SubSeq(content, 1, (CHOOSE i \in newlines : \A j \in newlines : i <= j) - 1)

loadLastConfigPath(last_config_file) ==
    IF Exists(last_config_file) THEN getline(fs[last_config_file].content)
    ELSE <<>>

parseFromFile(filename) ==
    IF ~Exists(filename) THEN Throw(WhatUnableToOpen \o filename)
    ELSE parse(fs[filename].content)

required_keys == <<K_name, K_description, K_instructions, K_conversation_starters>>

\* The validation loop of loadConfigFromFile from the i-th required key on:
\* the set of its possible outcomes.  For a key the object lacks, find() returns
\* end() and the code reads end()->second: undefined behaviour.  The read may
\* fault ("crash"), yield a null pointer (the key is reported missing:
\* "invalid") or yield a non-null pointer (the key passes and the loop goes on).
RECURSIVE validateKeys(_, _)
validateKeys(config, i) ==
    IF i > Len(required_keys) THEN {"valid"}
    ELSE IF ObjectHas(config, required_keys[i]) THEN validateKeys(config, i + 1)
    ELSE {"crash", "invalid"} \cup validateKeys(config, i + 1)

\* The possible outcomes of loadConfigFromFile(file_path): ret is the bool
\* returned, and config the configuration that replaces config_ when ret.
Rejected == [crash |-> FALSE, ret |-> FALSE, config |-> JNull]

loadConfigFromFileOutcomes(file_path) ==
    LET config == parseFromFile(file_path) IN
    IF config.thr THEN {Rejected}
    ELSE IF config.val.type # "OBJECT" THEN {Rejected}
    ELSE {CASE k = "valid" -> [crash |-> FALSE, ret |-> TRUE, config |-> config.val]
            [] k = "invalid" -> Rejected
            [] k = "crash" -> [crash |-> TRUE, ret |-> FALSE, config |-> JNull]
          : k \in validateKeys(config.val, 1)}

\* loadConfig with its first two steps exchanged: the requested file is tried
\* before the last-used path.
loadConfigOutcomes_FileFirst(config_file, last_config_file) ==
    LET last_config_path == loadLastConfigPath(last_config_file)
        fromLast == IF last_config_path # <<>> /\ Exists(last_config_path)
                    THEN loadConfigFromFileOutcomes(last_config_path)
                    ELSE {Rejected}
        parsed == parseFromFile(config_file)
    IN  IF Exists(config_file) /\ ~parsed.thr
        THEN {[crash |-> FALSE, config |-> parsed.val, source |-> "file"]}
        ELSE {IF o.crash THEN [crash |-> TRUE, config |-> JNull, source |-> "crash"]
              ELSE IF o.ret
              THEN [crash |-> FALSE, config |-> o.config, source |-> "last_used"]
              ELSE [crash |-> FALSE, config |-> createDefaultConfig, source |-> "default"]
              : o \in fromLast}

\* The possible outcomes of loadConfig() as the constructor calls it: the
\* configuration that becomes config_ and the step it came from.
loadConfigOutcomes(config_file, last_config_file) ==
    LET last_config_path == loadLastConfigPath(last_config_file)
        fromLast == IF last_config_path # <<>> /\ Exists(last_config_path)
                    THEN loadConfigFromFileOutcomes(last_config_path)
                    ELSE {Rejected}
        parsed == parseFromFile(config_file)
        fallback == IF Exists(config_file) /\ ~parsed.thr
                    THEN [crash |-> FALSE, config |-> parsed.val, source |-> "file"]
                    ELSE [crash |-> FALSE, config |-> createDefaultConfig,
                          source |-> "default"]
    IN  {IF o.crash THEN [crash |-> TRUE, config |-> JNull, source |-> "crash"]
         ELSE IF o.ret THEN [crash |-> FALSE, config |-> o.config, source |-> "last_used"]
         ELSE fallback
         : o \in fromLast}

\* The constructor with the resolution in it: it probes for the executables.
Construct_Resolving(config_file, cli_provider) ==
    /\ pc = "new"
    /\ \E o \in loadConfigOutcomes(ResolveConfigFile(config_file, configDirEnv),
                                   LastConfigFile(configDirEnv)) :
          /\ pc' = IF o.crash THEN "crashed" ELSE "ready"
          /\ config_' = o.config
          /\ last' = [Call("construct") EXCEPT !.source = o.source, !.path = config_file]
    /\ config_file_' = ResolveConfigFile(config_file, configDirEnv)
    /\ last_config_file_' = LastConfigFile(configDirEnv)
    /\ cli_provider_' = cli_provider
    /\ cli_path_' = findAvailableCli(cli_provider, resolves).path
    /\ active_provider_' = findAvailableCli(cli_provider, resolves).provider
    /\ UNCHANGED <<fs, configDirEnv, resolves, conversation_history_,
                   config_store_, guiVars>>

(***************************************************************************)
(* The operations of the session.                                          *)
(***************************************************************************)
\* ClaudeAgent::ClaudeAgent(config_file, cli_provider).
Construct(config_file, cli_provider) ==
    /\ pc = "new"
    /\ \E o \in loadConfigOutcomes(ResolveConfigFile(config_file, configDirEnv),
                                   LastConfigFile(configDirEnv)) :
          /\ pc' = IF o.crash THEN "crashed" ELSE "ready"
          /\ config_' = o.config
          /\ last' = [Call("construct") EXCEPT !.source = o.source, !.path = config_file]
    /\ config_file_' = ResolveConfigFile(config_file, configDirEnv)
    /\ last_config_file_' = LastConfigFile(configDirEnv)
    /\ cli_provider_' = cli_provider
    /\ active_provider_' = "AUTO"
    /\ UNCHANGED <<fs, configDirEnv, resolves, cli_path_, conversation_history_,
                   config_store_, guiVars>>

initializeCli ==
    /\ pc = "ready"
    /\ LET found == findAvailableCli(cli_provider_, resolves) IN
          /\ cli_path_' = found.path
          /\ active_provider_' = found.provider
          /\ last' = [Call("initializeCli") EXCEPT !.ok = (found.path # <<>>),
                                                   !.probed = findAvailableCliProbes(resolves)]
    /\ UNCHANGED <<fs, configDirEnv, resolves, pc, config_file_, last_config_file_,
                   cli_provider_, config_, conversation_history_,
                   config_store_, guiVars>>

\* switchCliProvider that keeps the executable already selected when the new
\* preference is not found.
switchCliProvider_KeepOnFailure(new_provider) ==
    /\ pc = "ready"
    /\ LET found == findAvailableCli(new_provider, resolves) IN
          /\ cli_provider_' = new_provider
          /\ cli_path_' = IF found.path # <<>> THEN found.path ELSE cli_path_
          /\ active_provider_' = IF found.path # <<>> THEN found.provider
                                 ELSE active_provider_
          /\ last' = [Call("switchCliProvider") EXCEPT !.ok = (found.path # <<>>),
                                                       !.probed = findAvailableCliProbes(resolves)]
    /\ UNCHANGED <<fs, configDirEnv, resolves, pc, config_file_, last_config_file_,
                   config_, conversation_history_,
                   config_store_, guiVars>>

switchCliProvider(new_provider) ==
    /\ pc = "ready"
    /\ LET found == findAvailableCli(new_provider, resolves) IN
          /\ cli_provider_' = new_provider
          /\ cli_path_' = found.path
          /\ active_provider_' = found.provider
          /\ last' = [Call("switchCliProvider") EXCEPT !.ok = (found.path # <<>>),
                                                       !.probed = findAvailableCliProbes(resolves)]
    /\ UNCHANGED <<fs, configDirEnv, resolves, pc, config_file_, last_config_file_,
                   config_, conversation_history_,
                   config_store_, guiVars>>

\* clearConversationHistory that removes the newest entry only.
clearConversationHistory_PopBack ==
    /\ pc = "ready"
    /\ conversation_history_' =
          SubSeq(conversation_history_, 1, Len(conversation_history_) - 1)
    /\ last' = Call("clearConversationHistory")
    /\ UNCHANGED <<fs, configDirEnv, resolves, pc, config_file_, last_config_file_,
                   cli_provider_, active_provider_, cli_path_, config_,
                   config_store_, guiVars>>

clearConversationHistory ==
    /\ pc = "ready"
    /\ conversation_history_' = <<>>
    /\ last' = Call("clearConversationHistory")
    /\ UNCHANGED <<fs, configDirEnv, resolves, pc, config_file_, last_config_file_,
                   cli_provider_, active_provider_, cli_path_, config_,
                   config_store_, guiVars>>

\* cliUnavailable without the test: sendToCli never returns early.
cliUnavailable_Never(cli_path) == FALSE

\* if (cli_path_.empty()): no provider executable was resolved.
cliUnavailable(cli_path) == cli_path = <<>>

\* storeResponse without the test for a leading "Error".
storeResponse_NonEmpty(response) == response # <<>>

\* if (!response.empty() && response.find("Error") != 0): the reply is stored.
storeResponse(response) == response # <<>> /\ ~StartsWith(response, S_Error)

\* claudeCommand without the system-prompt flag.
claudeCommand_NoFlag(cli_path, use_system_prompt, system_prompt, trailing) ==
    <<cli_path, S_Print, trailing>>

\* The command vector for the Claude CLI; last is the message or "-".
claudeCommand(cli_path, use_system_prompt, system_prompt, trailing) ==
    <<cli_path, S_Print>>
    \o (IF use_system_prompt THEN <<S_AppendSystemPrompt, system_prompt>> ELSE <<>>)
    \o <<trailing>>

\* The command vector for the Gemini CLI; last is the message or "-".
geminiCommand(cli_path, trailing) == <<cli_path, S_Prompt, trailing>>

\* The message body for the Gemini CLI.
geminiMessage(use_system_prompt, system_prompt, full_message) ==
    IF use_system_prompt THEN system_prompt \o S_User \o full_message
    ELSE full_message

\* What sendToCli(message, use_system_prompt) can do in the current state: the
\* set of the call's possible records.
sendToCliOutcomes(message, use_system_prompt) ==
    LET call == [Call("sendToCli") EXCEPT !.message = message, !.usp = use_system_prompt]
        provider_name == providerToString(active_provider_)
        context == buildConversationContext(conversation_history_, config_, message, -1)
        system_prompt == getSystemPrompt(config_)
        caught(e) == [call EXCEPT
                        !.text = S_ErrorCommunicating \o provider_name \o S_CliColon \o e.what,
                        !.caught = TRUE,
                        !.ctxBuilt = ~context.thr,
                        !.context = IF context.thr THEN <<>> ELSE context.val]
        run(cmd, full_message) ==
            {[call EXCEPT
                !.text = ex.text,
                !.ctxBuilt = TRUE,
                !.context = context.val,
                !.body = full_message,
                !.cmd = cmd,
                !.launched = ex.launched,
                !.shell = ex.shell,
                !.piped = ex.piped,
                !.redirected = ex.redirected,
                !.tmpCreated = ex.tmpCreated,
                !.tmpLeft = ex.tmpLeft,
                !.status0 = ex.status0,
                !.stdin = ex.stdin,
                !.stored = storeResponse(ex.text)]
             : ex \in executeCommand(cmd, full_message)}
        gemini_message == geminiMessage(use_system_prompt, system_prompt.val, context.val)
    IN  IF cliUnavailable(cli_path_)
        THEN {[call EXCEPT !.text = S_ErrorColon \o provider_name \o S_CliNotAvailable]}
        ELSE IF context.thr THEN {caught(context)}
        ELSE IF active_provider_ = "CLAUDE"
        THEN IF use_system_prompt /\ system_prompt.thr THEN {caught(system_prompt)}
             ELSE run(claudeCommand(cli_path_, use_system_prompt, system_prompt.val,
                                    IF useStdin(context.val) THEN S_Dash ELSE context.val),
                      context.val)
        ELSE IF active_provider_ = "GEMINI"
        THEN IF use_system_prompt /\ system_prompt.thr THEN {caught(system_prompt)}
             ELSE run(geminiCommand(cli_path_,
                                    IF useStdin(gemini_message) THEN S_Dash
                                    ELSE gemini_message),
                      gemini_message)
        ELSE {[call EXCEPT !.text = S_UnknownProvider, !.ctxBuilt = TRUE,
                           !.context = context.val]}

\* ClaudeAgent::sendToCli (and sendToClaudeApi, which only forwards to it).
sendToCli(message, use_system_prompt) ==
    /\ pc = "ready"
    /\ Len(conversation_history_) < MaxHistory
    /\ \E call \in sendToCliOutcomes(message, use_system_prompt) :
          /\ last' = call
          /\ conversation_history_' =
                IF call.stored
                THEN Append(conversation_history_, [user |-> message, assistant |-> call.text])
                ELSE conversation_history_
          /\ fs' = IF call.tmpCreated
                   THEN [fs EXCEPT ![TempFile] =
                            IF call.tmpLeft THEN File(call.body) ELSE NoFile]
                   ELSE fs
    /\ UNCHANGED <<configDirEnv, resolves, pc, config_file_, last_config_file_,
                   cli_provider_, active_provider_, cli_path_, config_,
                   config_store_, guiVars>>

\* saveLastConfigPath(config_path): the file system after it.  The stream may
\* fail to open, and then nothing is written.
saveLastConfigPath(config_path, opened) ==
    IF opened /\ last_config_file_ \in DOMAIN fs
    THEN [fs EXCEPT ![last_config_file_] = File(config_path)]
    ELSE fs

\* ClaudeAgent::loadConfigFromFile(file_path).
loadConfigFromFile(file_path) ==
    /\ pc = "ready"
    /\ \E o \in loadConfigFromFileOutcomes(file_path) :
          /\ pc' = IF o.crash THEN "crashed" ELSE "ready"
          /\ config_' = IF o.ret THEN o.config ELSE config_
          /\ last' = [Call("loadConfigFromFile") EXCEPT !.ok = o.ret, !.path = file_path]
    /\ UNCHANGED <<fs, configDirEnv, resolves, config_file_, last_config_file_,
                   cli_provider_, active_provider_, cli_path_, conversation_history_,
                   config_store_, guiVars>>

\* ClaudeAgent::loadSpecificConfig(file_path): after a successful load it writes
\* the last-used pointer and then prints getName(), outside any try block.
loadSpecificConfig(file_path) ==
    /\ pc = "ready"
    /\ \E o \in loadConfigFromFileOutcomes(file_path), opened \in BOOLEAN :
          /\ pc' = IF o.crash THEN "crashed" ELSE "ready"
          /\ config_' = IF o.ret THEN o.config ELSE config_
          /\ fs' = IF o.ret THEN saveLastConfigPath(file_path, opened) ELSE fs
          /\ last' = [Call("loadSpecificConfig") EXCEPT
                        !.ok = o.ret,
                        !.thr = (o.ret /\ getName(o.config).thr),
                        !.path = file_path]
    /\ UNCHANGED <<configDirEnv, resolves, config_file_, last_config_file_,
                   cli_provider_, active_provider_, cli_path_, conversation_history_,
                   config_store_, guiVars>>

\* What a setter can make of the configuration.  The setters cast config_ to
\* ObjectValue without a test (static_pointer_cast): on a value of another type
\* the call to set() is undefined behaviour, which may fault or may leave the
\* value as the getters see it.
setOutcomes(config, key, value) ==
    IF config.type = "OBJECT"
    THEN {[crash |-> FALSE, undefined |-> FALSE, config |-> ObjectSet(config, key, value)]}
    ELSE {[crash |-> TRUE, undefined |-> TRUE, config |-> config],
          [crash |-> FALSE, undefined |-> TRUE, config |-> config]}

\* The body the five setters share: obj->set(key, value).
setField(op, key, value) ==
    /\ pc = "ready"
    /\ \E o \in setOutcomes(config_, key, value) :
          /\ pc' = IF o.crash THEN "crashed" ELSE "ready"
          /\ config_' = o.config
          /\ last' = [Call(op) EXCEPT !.undefined = o.undefined]
    /\ UNCHANGED <<fs, configDirEnv, resolves, config_file_, last_config_file_,
                   cli_provider_, active_provider_, cli_path_, conversation_history_,
                   config_store_, guiVars>>

setName(name) == setField("setName", K_name, JString(name))

setDescription(description) == setField("setDescription", K_description, JString(description))

setInstructions(instructions) == setField("setInstructions", K_instructions, JString(instructions))

\* The array of the starters, built by the loop of setConversationStarters.
RECURSIVE startersArray(_, _)
startersArray(starters, i) ==
    IF i = 0 THEN JArray
    ELSE ArrayPush(startersArray(starters, i - 1), JString(starters[i]))

setConversationStarters(starters) ==
    setField("setConversationStarters", K_conversation_starters,
             startersArray(starters, Len(starters)))

setConversationMemory(memory) ==
    setField("setConversationMemory", K_conversation_memory, JInt(memory))

\* json::saveToFile(filename, value): the file system after it.  The stream may
\* fail to open, and then nothing is written and false is returned.
saveToFile(filename, value, opened, cast) ==
    IF opened /\ filename \in DOMAIN fs
    THEN [fs EXCEPT ![filename] = File(toString(value, cast))]
    ELSE fs

\* ClaudeAgent::saveConfig().
saveConfig ==
    /\ pc = "ready"
    /\ \E opened \in BOOLEAN, cast \in CastOutcomes :
          /\ fs' = saveToFile(config_file_, config_, opened, cast)
          /\ last' = [Call("saveConfig") EXCEPT
                        !.ok = (opened /\ config_file_ \in DOMAIN fs),
                        !.path = config_file_]
    /\ UNCHANGED <<configDirEnv, resolves, pc, config_file_, last_config_file_,
                   cli_provider_, active_provider_, cli_path_, config_,
                   conversation_history_, config_store_, guiVars>>

(***************************************************************************)
(* Spec: a session constructed on one of a few configuration files, its    *)
(* provider resolved and switched, messages sent and the history cleared.  *)
(***************************************************************************)
SessionNew ==
    /\ pc = "new"
    /\ config_file_ = <<>>
    /\ last_config_file_ = <<>>
    /\ cli_provider_ = "AUTO"
    /\ active_provider_ = "AUTO"
    /\ cli_path_ = <<>>
    /\ config_ = JNull
    /\ conversation_history_ = <<>>
    /\ config_store_ = <<>>
    /\ GuiIdle
    /\ last = Call("none")

EmptyFs == [p \in FsPaths |-> NoFile]

DispatchConfigs == {File(CfgValid), File(CfgNegativeMemory), File(CfgNullValues)}

Messages == {M_Hello, M_Lines, M_Long}

Init ==
    /\ SessionNew
    /\ configDirEnv = NoEnv
    /\ resolves \in SUBSET {S_claude, S_gemini}
    /\ \E f \in DispatchConfigs :
          fs = [EmptyFs EXCEPT ![ResolveConfigFile(F_AgentConfig, NoEnv)] = f]

Next ==
    \/ \E p \in Providers : Construct(F_AgentConfig, p)
    \/ initializeCli
    \/ \E p \in Providers : switchCliProvider(p)
    \/ \E m \in Messages, u \in BOOLEAN : sendToCli(m, u)
    \/ clearConversationHistory

Spec == Init /\ [][Next]_vars

(***************************************************************************)
(* SpecRouting: one provider session and the messages that sit on either   *)
(* side of the content-shape test; the history holds at most               *)
(* MaxRoutedHistory exchanges.                                             *)
(***************************************************************************)
MaxRoutedHistory == 2

RoutingMessages ==
    {M_Hello, M_SingleQuote, M_DoubleQuote, M_Lines, M_AtThreshold, M_Long, S_Dash}

sendRouted(message, use_system_prompt) ==
    /\ Len(conversation_history_) < MaxRoutedHistory
    /\ sendToCli(message, use_system_prompt)

InitRouting ==
    /\ SessionNew
    /\ configDirEnv = NoEnv
    /\ resolves = {S_claude, S_gemini}
    /\ fs = [EmptyFs EXCEPT ![ResolveConfigFile(F_AgentConfig, NoEnv)] = File(CfgValid)]

NextRouting ==
    \/ \E p \in Providers : Construct(F_AgentConfig, p)
    \/ initializeCli
    \/ \E p \in Providers : switchCliProvider(p)
    \/ \E m \in RoutingMessages, u \in BOOLEAN : sendRouted(m, u)
    \/ clearConversationHistory

SpecRouting == InitRouting /\ [][NextRouting]_vars

(***************************************************************************)
(* SpecConfig: the configuration files a session can meet, at construction *)
(* and when a configuration is loaded afterwards.                          *)
(***************************************************************************)
ConfigContents ==
    {NoFile, File(CfgValid), File(CfgNullValues), File(CfgMinimal), File(CfgInvalidJson),
     File(CfgTrailingText), File(CfgArray)}

OtherContents == {NoFile, File(CfgValid), File(CfgNullValues), File(CfgMinimal)}

PointerContents(env) ==
    {NoFile, File(ResolveConfigFile(F_AgentConfig, env)), File(P_Other), File(P_Missing)}

LoadPaths == {ResolveConfigFile(F_AgentConfig, configDirEnv), P_Other, P_Missing}

InitConfig ==
    /\ SessionNew
    /\ resolves = {}
    /\ configDirEnv \in {NoEnv, EnvSet(EnvDir)}
    /\ \E c \in ConfigContents, o \in OtherContents, l \in PointerContents(configDirEnv) :
          fs = [EmptyFs EXCEPT ![ResolveConfigFile(F_AgentConfig, configDirEnv)] = c,
                               ![P_Other] = o,
                               ![LastConfigFile(configDirEnv)] = l]

NextConfig ==
    \/ Construct(F_AgentConfig, "AUTO")
    \/ \E path \in LoadPaths : loadConfigFromFile(path)
    \/ \E path \in LoadPaths : loadSpecificConfig(path)

SpecConfig == InitConfig /\ [][NextConfig]_vars

(***************************************************************************)
(* SpecJson: the document model on its own.  A value built with the        *)
(* constructors is serialised and the text parsed again; a text is parsed. *)
(* `last` holds the value or text the step started from and its result.    *)
(***************************************************************************)
JsonCall(op) ==
    [op |-> op, from |-> "", value |-> JNull, cast |-> "", text |-> <<>>,
     result |-> Ret(JNull)]

\* Contents of strings and keys: plain, empty, with a quote, with a backslash
\* before a letter, ending in a backslash, with a line break.
DocStrings ==
    {<<"a", "b">>, <<>>, <<"a", "\"", "b">>, <<"a", "\\", "n", "b">>, <<"a", "\\">>, <<"a", "\n", "b">>}

DocKeys == {<<"a">>, <<"b">>, <<"k", "\"">>, <<>>}

\* Numbers: integral ones an int holds (the largest of them included), ones
\* with a fraction, with more than six significant digits, and integral ones
\* beyond any int.
DocNumbers ==
    {JNumber(0, 0), JNumber(5, 0), JNumber(-3, 0), JNumber(4, 3), JNumber(1234567, 0),
     JNumber(2147483647, 0), JNumber(15, -1), JNumber(-7, -1), JNumber(1, -5),
     JNumber(1234567, -7), JNumber(3, 9), JNumber(1, 10), JNumber(1234567, 4)}

DocScalars ==
    {JString(s) : s \in DocStrings} \cup DocNumbers \cup {JBoolean(TRUE), JBoolean(FALSE), JNull}

\* The members and elements of the composite values.
DocParts ==
    {JString(<<"a", "b">>), JNumber(5, 0), JNumber(15, -1), JBoolean(TRUE), JNull,
     JArray, ArrayPush(JArray, JNumber(5, 0)), ObjectSet(JObject, <<"a">>, JNull)}

DocArrays ==
    {JArray} \cup {ArrayPush(JArray, a) : a \in DocParts}
    \cup {ArrayPush(ArrayPush(JArray, a), b) : a, b \in {JNumber(5, 0), JNull, JArray}}

DocObjects ==
    {JObject} \cup {ObjectSet(JObject, k, v) : k \in DocKeys, v \in {JNumber(5, 0), JArray}}
    \cup {ObjectSet(ObjectSet(JObject, <<"b">>, a), <<"a">>, b) : a, b \in DocParts}
    \cup {ObjectSet(ObjectSet(JObject, <<"a">>, a), <<"a">>, b) :
             a, b \in {JNumber(5, 0), JNull}}

DocValues == DocScalars \cup DocArrays \cup DocObjects

\* Value::toString applied to the value.
toStringStep ==
    /\ pc = "document" /\ last.op = "value"
    /\ \E cast \in CastOutcomes :
          last' = [JsonCall("toString") EXCEPT
                     !.from = "value",
                     !.value = last.value,
                     !.cast = cast,
                     !.text = toString(last.value, cast)]
    /\ UNCHANGED <<fs, configDirEnv, resolves, pc, config_file_, last_config_file_,
                   cli_provider_, active_provider_, cli_path_, config_,
                   conversation_history_,
                   config_store_, guiVars>>

\* json::parse applied to the text.
parseStep ==
    /\ pc = "document" /\ last.op \in {"text", "toString"}
    /\ last' = [JsonCall("parse") EXCEPT
                  !.from = last.op,
                  !.value = last.value,
                  !.cast = last.cast,
                  !.text = last.text,
                  !.result = parse(last.text)]
    /\ UNCHANGED <<fs, configDirEnv, resolves, pc, config_file_, last_config_file_,
                   cli_provider_, active_provider_, cli_path_, config_,
                   conversation_history_,
                   config_store_, guiVars>>

\* Texts of the JSON grammar.
ConformingTexts ==
    {<<"{", "}">>,
     <<"[", "]">>,
     <<"\"", "a", "b", "\"">>,
     <<"0">>,
     <<"-", "1", ".", "5", "e", "+", "2">>,
     <<"1", "E", "5">>,
     <<"t", "r", "u", "e">>,
     <<"f", "a", "l", "s", "e">>,
     <<"n", "u", "l", "l">>,
     <<" ", "{", "\"", "a", "\"", " ", ":", " ", "[", "1", ",", " ", "2", "]", " ", "}", " ">>,
     <<"\"", "a", "\\", "n", "b", "\"">>,
     <<"\"", "\\", "u", "0", "0", "4", "1", "\"">>,
     <<"[", "1", ",", "{", "\"", "a", "\"", ":", "n", "u", "l", "l", "}", "]">>,
     <<"-", "0", ".", "5">>}

\* Texts outside the grammar: truncated, with a wrong character or a wrong token.
TruncatedTexts ==
    {<<>>,
     <<"{">>,
     <<"[", "1", ",", "2">>,
     <<"\"", "a", "b", "c">>,
     <<"t", "r", "u">>,
     <<"n", "u", "l">>,
     <<"-">>,
     <<".", "5">>,
     <<"+", "1">>,
     <<"[", "1", ",", "]">>,
     <<"{", "\"", "a", "\"", ":", "1", ",", "}">>,
     <<"{", "\"", "a", "\"", " ", "1", "}">>,
     <<"{", "a", ":", "1", "}">>,
     <<"[", "1", " ", "2", "]">>,
     <<"@">>,
     <<"f", "a", "l", "s">>}

\* Texts outside the grammar: text after the value, numbers with a leading zero
\* or without digits after the point or the exponent, an unknown escape, a
\* control character inside a string.
NearTexts ==
    {<<"1", " ", "x">>,
     <<"{", "\"", "a", "\"", ":", "1", "}", " ", "x">>,
     <<"0", "1">>,
     <<"-", "0", "1">>,
     <<"1", ".">>,
     <<"1", "e">>,
     <<"1", "e", "+">>,
     <<"t", "r", "u", "e", "x">>,
     <<"n", "u", "l", "l", "n", "u", "l", "l">>,
     <<"[", "]", " ", "[", "]">>,
     <<"{", "\"", "a", "\"", ":", "1", "}", "}">>,
     <<"1", ",", "2">>,
     <<"\"", "a", "\"", "b", "\"">>,
     <<"\"", "a", "\\", "x", "b", "\"">>,
     <<"\"", "a", "\n", "b", "\"">>,
     <<"\"", "a", "\t", "b", "\"">>,
     <<"[", "0", "1", "]">>,
     <<"{", "\"", "a", "\"", ":", "1", ".", "}">>}

\* Object texts with a repeated key: the members, in the order of the text,
\* each with its key, the text of its value and the value that text denotes.
Member(key, text, value) == [key |-> key, text |-> text, value |-> value]

MemberValues ==
    {[text |-> <<"1">>, value |-> JNumber(1, 0)],
     [text |-> <<"2">>, value |-> JNumber(2, 0)],
     [text |-> <<CH_DQ, "x", CH_DQ>>, value |-> JString(<<"x">>)]}

RepeatedKeyMembers ==
    {<<Member(<<"a">>, u.text, u.value), Member(<<"a">>, v.text, v.value)>> :
        u, v \in MemberValues}
    \cup {<<Member(<<"a">>, u.text, u.value), Member(<<"b">>, v.text, v.value),
            Member(<<"a">>, w.text, w.value)>> : u, v, w \in MemberValues}

RECURSIVE MembersText(_, _)
MembersText(members, i) ==
    IF i > Len(members) THEN <<>>
    ELSE (IF i > 1 THEN <<",">> ELSE <<>>)
         \o <<CH_DQ>> \o members[i].key \o <<CH_DQ, ":">> \o members[i].text
         \o MembersText(members, i + 1)

ObjectText(members) == <<"{">> \o MembersText(members, 1) \o <<"}">>

DocTexts ==
    ConformingTexts \cup TruncatedTexts \cup NearTexts \cup {CfgInvalidJson}
    \cup {ObjectText(members) : members \in RepeatedKeyMembers}

InitJson ==
    /\ fs = EmptyFs
    /\ configDirEnv = NoEnv
    /\ resolves = {}
    /\ pc = "document"
    /\ config_file_ = <<>>
    /\ last_config_file_ = <<>>
    /\ cli_provider_ = "AUTO"
    /\ active_provider_ = "AUTO"
    /\ cli_path_ = <<>>
    /\ config_ = JNull
    /\ conversation_history_ = <<>>
    /\ config_store_ = <<>>
    /\ GuiIdle
    /\ \/ \E value \in DocValues : last = [JsonCall("value") EXCEPT !.value = value]
       \/ \E text \in DocTexts : last = [JsonCall("text") EXCEPT !.text = text]

NextJson ==
    \/ toStringStep
    \/ parseStep

SpecJson == InitJson /\ [][NextJson]_vars

(***************************************************************************)
(* SpecSession: one session and every operation of its public interface:   *)
(* sends, resets, provider switches, configuration loads, the setters and  *)
(* the save.  The history holds at most MaxSessionHistory exchanges.       *)
(***************************************************************************)
MaxSessionHistory == 2

sendInSession(message, use_system_prompt) ==
    /\ Len(conversation_history_) < MaxSessionHistory
    /\ sendToCli(message, use_system_prompt)

\* The values the callers hand to the setters.
NewName == <<"B", "o", "t">>

NewStarters == <<<<"H", "i">>, <<"G", "o">>>>

InitSession ==
    /\ SessionNew
    /\ configDirEnv = NoEnv
    /\ resolves = {S_claude}
    /\ \E c \in {File(CfgValid), File(CfgArray)} :
          fs = [EmptyFs EXCEPT ![ResolveConfigFile(F_AgentConfig, NoEnv)] = c,
                               ![P_Other] = File(CfgValid)]

Setters ==
    \/ setName(NewName)
    \/ setDescription(NewName)
    \/ setInstructions(NewName)
    \/ setConversationStarters(NewStarters)
    \/ setConversationMemory(1)

NextSession ==
    \/ Construct(F_AgentConfig, "AUTO")
    \/ initializeCli
    \/ \E p \in {"CLAUDE", "GEMINI"} : switchCliProvider(p)
    \/ sendInSession(M_Hello, TRUE)
    \/ clearConversationHistory
    \/ loadConfigFromFile(P_Other)
    \/ loadSpecificConfig(P_Other)
    \/ Setters
    \/ saveConfig

SpecSession == InitSession /\ [][NextSession]_vars

(***************************************************************************)
(* SpecShell: executeCommand on its own, applied to command vectors whose  *)
(* arguments hold the characters the shell gives a meaning to.             *)
(***************************************************************************)
\* Arguments: plain, empty, with blanks, with one or more single quotes at
\* either end or alone, with double quotes, backslashes, a dollar sign, a
\* semicolon, a redirection, a line break, and the substitution text itself.
ShellArgs ==
    {<<"a">>, <<>>, <<"a", " ", "b">>, <<"'">>, <<"a", "'", "b">>, <<"'", "'">>,
     <<"'", "a", "'">>, <<"a", "'">>, <<"\"">>, <<"\"", "'", "\"">>, <<"\\">>,
     <<"\\", "'">>, <<"$", "x">>, <<";", "l", "s">>, <<"<", "f">>, <<"a", "\n", "b">>,
     <<"-">>, S_QuoteEscape}

ShellCommands ==
    {<<S_claude, a>> : a \in ShellArgs}
    \cup {<<S_claude, a, b>> : a \in ShellArgs, b \in ShellArgs}

\* executeCommand(command, stdin_input) called on the command vector.
executeCommandStep ==
    /\ pc = "shell" /\ last.op = "command"
    /\ \E ex \in executeCommand(last.cmd, last.body) :
          last' = [Call("executeCommand") EXCEPT
                     !.cmd = last.cmd,
                     !.body = last.body,
                     !.text = ex.text,
                     !.launched = ex.launched,
                     !.shell = ex.shell,
                     !.piped = ex.piped,
                     !.redirected = ex.redirected,
                     !.tmpCreated = ex.tmpCreated,
                     !.tmpLeft = ex.tmpLeft,
                     !.status0 = ex.status0,
                     !.stdin = ex.stdin]
    /\ UNCHANGED <<fs, configDirEnv, resolves, pc, config_file_, last_config_file_,
                   cli_provider_, active_provider_, cli_path_, config_,
                   conversation_history_, config_store_, guiVars>>

InitShell ==
    /\ fs = EmptyFs
    /\ configDirEnv = NoEnv
    /\ resolves = {}
    /\ pc = "shell"
    /\ config_file_ = <<>>
    /\ last_config_file_ = <<>>
    /\ cli_provider_ = "AUTO"
    /\ active_provider_ = "AUTO"
    /\ cli_path_ = <<>>
    /\ config_ = JNull
    /\ conversation_history_ = <<>>
    /\ config_store_ = <<>>
    /\ GuiIdle
    /\ \E command \in ShellCommands, stdin_input \in {<<>>, M_Hello} :
          last = [Call("command") EXCEPT !.cmd = command, !.body = stdin_input]

NextShell == executeCommandStep

SpecShell == InitShell /\ [][NextShell]_vars

(***************************************************************************)
(* SpecGui: the main window (ClaudeAgentGUI).  Its handlers run on the     *)
(* foreground thread; sendMessageBackground runs on a detached thread and  *)
(* hands its reply over through response_queue_, which the timer polls.    *)
(***************************************************************************)
S_You == <<"Y", "o", "u">>

S_System == <<"S", "y", "s", "t", "e", "m">>

S_Thinking == <<"T", "h", "i", "n", "k", "i", "n", "g", ".", ".", ".">>

S_ChatCleared == <<"C", "h", "a", "t", " ", "c", "l", "e", "a", "r", "e", "d", ".", " ", "H", "o", "w", " ", "c", "a", "n", " ", "I", " ", "h", "e", "l", "p", " ", "y", "o", "u", "?">>

S_SwitchedTo == <<"S", "w", "i", "t", "c", "h", "e", "d", " ", "t", "o", " ">>

S_SpaceCli == <<" ", "C", "L", "I">>

S_Warning == <<"W", "a", "r", "n", "i", "n", "g", ":", " ">>

S_CliNotFound == <<" ", "C", "L", "I", " ", "n", "o", "t", " ", "f", "o", "u", "n", "d">>

\* The most lines the model lets the chat display hold.
MaxChat == 3

Line(sender, message) == [sender |-> sender, message |-> message]

\* addMessage(sender, message): one more line at the end of the display.
addMessage(buffer, sender, message) == Append(buffer, Line(sender, message))

\* removeThinkingMessage: the last "System: Thinking..." line is erased.
removeThinkingMessage(buffer) ==
    LET thinking == {i \in 1..Len(buffer) : buffer[i] = Line(S_System, S_Thinking)}
        at == CHOOSE i \in thinking : \A j \in thinking : j <= i
    IN  IF thinking = {} THEN buffer
        ELSE SubSeq(buffer, 1, at - 1) \o SubSeq(buffer, at + 1, Len(buffer))

\* std::transform(..., ::toupper) on a provider's name.
toupper(provider_name) ==
    CASE provider_name = S_claude -> <<"C", "L", "A", "U", "D", "E">>
      [] provider_name = S_gemini -> <<"G", "E", "M", "I", "N", "I">>
      [] provider_name = S_auto -> <<"A", "U", "T", "O">>

\* The text of the provider combo for a provider, and the provider for a text.
ComboTexts == {S_auto, S_claude, S_gemini}

comboProvider(new_provider) ==
    IF new_provider = S_claude THEN "CLAUDE"
    ELSE IF new_provider = S_gemini THEN "GEMINI"
    ELSE "AUTO"

\* updateHeader and refreshConversationStarters read the name and the
\* description: an exception of theirs leaves the handler.
refreshInterfaceThrows(config) == getName(config).thr \/ getDescription(config).thr

\* A write of the foreground thread to the session while worker threads
\* exist: the threads share the session without a lock.
Raced(threads) == [i \in DOMAIN threads |-> [threads[i] EXCEPT !.raced = TRUE]]

\* ClaudeAgentGUI::ClaudeAgentGUI(): the session is constructed on the default
\* file, the provider resolved and the header drawn.
ClaudeAgentGUI ==
    /\ pc = "new"
    /\ \E o \in loadConfigOutcomes(ResolveConfigFile(F_AgentConfig, configDirEnv),
                                   LastConfigFile(configDirEnv)) :
          LET found == findAvailableCli("AUTO", resolves) IN
          /\ pc' = IF o.crash \/ refreshInterfaceThrows(o.config) THEN "crashed"
                   ELSE "ready"
          /\ config_' = o.config
          /\ cli_path_' = found.path
          /\ active_provider_' = found.provider
          /\ last' = [Call("ClaudeAgentGUI") EXCEPT
                        !.source = o.source,
                        !.thr = (~o.crash /\ refreshInterfaceThrows(o.config))]
    /\ config_file_' = ResolveConfigFile(F_AgentConfig, configDirEnv)
    /\ last_config_file_' = LastConfigFile(configDirEnv)
    /\ cli_provider_' = "AUTO"
    /\ UNCHANGED <<fs, configDirEnv, resolves, conversation_history_, config_store_,
                   guiVars>>

\* onSendMessage without its test of processing_message_.
onSendMessage_Unguarded(user_message) ==
    /\ pc = "ready"
    /\ Len(chat_buffer_) + 2 <= MaxChat
    /\ IF user_message = <<>>
       THEN /\ last' = [Call("onSendMessage") EXCEPT !.ok = FALSE, !.message = user_message]
            /\ UNCHANGED <<processing_message_, workers, chat_buffer_>>
       ELSE /\ chat_buffer_' = addMessage(addMessage(chat_buffer_, S_You, user_message),
                                          S_System, S_Thinking)
            /\ processing_message_' = TRUE
            /\ workers' = Append(workers, [pc |-> "started", message |-> user_message,
                                            raced |-> FALSE])
            /\ last' = [Call("onSendMessage") EXCEPT !.message = user_message]
    /\ UNCHANGED <<fs, configDirEnv, resolves, pc, config_file_, last_config_file_,
                   cli_provider_, active_provider_, cli_path_, config_,
                   conversation_history_, config_store_, response_queue_,
                   config_dialog_>>

\* ClaudeAgentGUI::onSendMessage with user_message in the input field.
onSendMessage(user_message) ==
    /\ pc = "ready"
    /\ Len(chat_buffer_) + 2 <= MaxChat
    /\ IF processing_message_ \/ user_message = <<>>
       THEN /\ last' = [Call("onSendMessage") EXCEPT !.ok = FALSE, !.message = user_message]
            /\ UNCHANGED <<processing_message_, workers, chat_buffer_>>
       ELSE /\ chat_buffer_' = addMessage(addMessage(chat_buffer_, S_You, user_message),
                                          S_System, S_Thinking)
            /\ processing_message_' = TRUE
            /\ workers' = Append(workers, [pc |-> "started", message |-> user_message,
                                            raced |-> FALSE])
            /\ last' = [Call("onSendMessage") EXCEPT !.message = user_message]
    /\ UNCHANGED <<fs, configDirEnv, resolves, pc, config_file_, last_config_file_,
                   cli_provider_, active_provider_, cli_path_, config_,
                   conversation_history_, config_store_, response_queue_,
                   config_dialog_>>

\* sendMessageBackground, first part: the i-th worker thread enters
\* sendToClaudeApi, which reads the session, builds the command and starts the
\* process.
sendMessageBackground(i) ==
    /\ pc = "ready" /\ i \in DOMAIN workers /\ workers[i].pc = "started"
    /\ \E call \in sendToCliOutcomes(workers[i].message, TRUE) :
          workers' = [workers EXCEPT ![i] =
                         [pc |-> "running", message |-> workers[i].message,
                          raced |-> workers[i].raced, call |-> call]]
    /\ UNCHANGED <<fs, configDirEnv, resolves, pc, config_file_, last_config_file_,
                   cli_provider_, active_provider_, cli_path_, config_,
                   conversation_history_, config_store_, processing_message_,
                   response_queue_, config_dialog_, chat_buffer_, last>>

\* sendMessageBackground, second part: the process has ended, sendToCli stores
\* the exchange and returns, the reply is pushed under queue_mutex_ and the
\* thread ends.  When the foreground thread wrote to the session in the
\* meantime the two threads raced, and the program may fault instead.
sendMessageReturn(i) ==
    /\ pc = "ready" /\ i \in DOMAIN workers /\ workers[i].pc = "running"
    /\ LET thread == workers[i] IN
       \E fault \in {FALSE, thread.raced} :
          IF fault
          THEN /\ pc' = "crashed"
               /\ last' = [thread.call EXCEPT !.undefined = TRUE]
               /\ UNCHANGED <<fs, conversation_history_, response_queue_, workers>>
          ELSE /\ pc' = pc
               /\ last' = [thread.call EXCEPT !.undefined = thread.raced]
               /\ conversation_history_' =
                     IF thread.call.stored
                     THEN Append(conversation_history_,
                                 [user |-> thread.message, assistant |-> thread.call.text])
                     ELSE conversation_history_
               /\ fs' = IF thread.call.tmpCreated
                        THEN [fs EXCEPT ![TempFile] =
                                 IF thread.call.tmpLeft THEN File(thread.call.body)
                                 ELSE NoFile]
                        ELSE fs
               /\ response_queue_' = Append(response_queue_, thread.call.text)
               /\ workers' = SubSeq(workers, 1, i - 1) \o SubSeq(workers, i + 1, Len(workers))
    /\ UNCHANGED <<configDirEnv, resolves, config_file_, last_config_file_,
                   cli_provider_, active_provider_, cli_path_, config_, config_store_,
                   processing_message_, config_dialog_, chat_buffer_>>

\* ClaudeAgentGUI::checkResponseQueue, run by the timer every TIMER_INTERVAL.
\* With a reply in the queue it takes it, replaces the thinking line by the
\* reply and clears the flag; getName() is called in between and its exception
\* leaves the handler.
checkResponseQueue ==
    /\ pc = "ready"
    /\ IF response_queue_ = <<>>
       THEN UNCHANGED <<pc, response_queue_, chat_buffer_, processing_message_, last>>
       ELSE LET response == Head(response_queue_)
                name == getName(config_)
            IN  /\ response_queue_' = Tail(response_queue_)
                /\ last' = [Call("checkResponseQueue") EXCEPT
                              !.text = response, !.thr = name.thr]
                /\ IF name.thr
                   THEN /\ pc' = "crashed"
                        /\ chat_buffer_' = removeThinkingMessage(chat_buffer_)
                        /\ UNCHANGED processing_message_
                   ELSE /\ pc' = pc
                        /\ chat_buffer_' = addMessage(removeThinkingMessage(chat_buffer_),
                                                      name.val, response)
                        /\ processing_message_' = FALSE
    /\ UNCHANGED <<fs, configDirEnv, resolves, config_file_, last_config_file_,
                   cli_provider_, active_provider_, cli_path_, config_,
                   conversation_history_, config_store_, workers, config_dialog_>>

\* ClaudeAgentGUI::onClearClicked.
onClearClicked ==
    /\ pc = "ready"
    /\ chat_buffer_' = addMessage(<<>>, S_System, S_ChatCleared)
    /\ conversation_history_' = <<>>
    /\ workers' = Raced(workers)
    /\ last' = Call("onClearClicked")
    /\ UNCHANGED <<fs, configDirEnv, resolves, pc, config_file_, last_config_file_,
                   cli_provider_, active_provider_, cli_path_, config_, config_store_,
                   processing_message_, response_queue_, config_dialog_>>

\* ClaudeAgentGUI::onCliProviderChanged with new_provider chosen in the combo.
onCliProviderChanged(new_provider) ==
    /\ pc = "ready"
    /\ new_provider # providerToString(cli_provider_)
    /\ Len(chat_buffer_) < MaxChat
    /\ LET provider == comboProvider(new_provider)
           found == findAvailableCli(provider, resolves)
           success == found.path # <<>>
       IN  /\ cli_provider_' = provider
           /\ cli_path_' = found.path
           /\ active_provider_' = found.provider
           /\ workers' = Raced(workers)
           /\ last' = [Call("onCliProviderChanged") EXCEPT
                         !.ok = success, !.thr = refreshInterfaceThrows(config_)]
           /\ IF refreshInterfaceThrows(config_)
              THEN pc' = "crashed" /\ UNCHANGED chat_buffer_
              ELSE /\ pc' = pc
                   /\ chat_buffer_' =
                         IF success
                         THEN addMessage(chat_buffer_, S_System,
                                 S_SwitchedTo \o toupper(providerToString(found.provider))
                                 \o S_SpaceCli)
                         ELSE addMessage(chat_buffer_, S_System,
                                 S_Warning \o new_provider \o S_CliNotFound)
    /\ UNCHANGED <<fs, configDirEnv, resolves, config_file_, last_config_file_,
                   config_, conversation_history_, config_store_, processing_message_,
                   response_queue_, config_dialog_>>

\* ConfigDialog::loadCurrentConfig reads the name, the description and the
\* instructions: an exception of theirs leaves the handler.
loadCurrentConfigThrows(config) ==
    getName(config).thr \/ getDescription(config).thr \/ getInstructions(config).thr

\* ClaudeAgentGUI::onConfigClicked: the configuration dialog is filled from the
\* session and shown, and the header redrawn.
onConfigClicked ==
    /\ pc = "ready"
    /\ pc' = IF loadCurrentConfigThrows(config_) THEN "crashed" ELSE pc
    /\ config_dialog_' = ~loadCurrentConfigThrows(config_)
    /\ last' = [Call("onConfigClicked") EXCEPT !.thr = loadCurrentConfigThrows(config_)]
    /\ UNCHANGED <<fs, configDirEnv, resolves, config_file_, last_config_file_,
                   cli_provider_, active_provider_, cli_path_, config_,
                   conversation_history_, config_store_, processing_message_,
                   response_queue_, workers, chat_buffer_>>

\* The three setters ConfigDialog::onSaveClicked calls, one after the other.
setDialogFields(config, name, description, instructions) ==
    {[crash |-> o1.crash \/ o2.crash \/ o3.crash,
      undefined |-> o1.undefined \/ o2.undefined \/ o3.undefined,
      config |-> o3.config] :
        o1 \in setOutcomes(config, K_name, JString(name)),
        o2 \in UNION {setOutcomes(o.config, K_description, JString(description)) :
                         o \in setOutcomes(config, K_name, JString(name))},
        o3 \in UNION {setOutcomes(p.config, K_instructions, JString(instructions)) :
                         p \in UNION {setOutcomes(o.config, K_description,
                                                  JString(description)) :
                                         o \in setOutcomes(config, K_name, JString(name))}}}

\* ConfigDialog::onSaveClicked with the texts of the dialog's fields: the
\* session's configuration is changed and saved; the dialog closes when the
\* file was written.
onSaveClicked(name, description, instructions) ==
    /\ pc = "ready" /\ config_dialog_
    /\ \E o \in setDialogFields(config_, name, description, instructions),
          opened \in BOOLEAN, cast \in CastOutcomes :
          /\ pc' = IF o.crash THEN "crashed" ELSE pc
          /\ config_' = o.config
          /\ fs' = IF o.crash THEN fs ELSE saveToFile(config_file_, o.config, opened, cast)
          /\ config_dialog_' = (o.crash \/ ~(opened /\ config_file_ \in DOMAIN fs))
          /\ last' = [Call("onSaveClicked") EXCEPT
                        !.ok = (~o.crash /\ opened /\ config_file_ \in DOMAIN fs),
                        !.undefined = o.undefined]
    /\ workers' = Raced(workers)
    /\ UNCHANGED <<configDirEnv, resolves, config_file_, last_config_file_,
                   cli_provider_, active_provider_, cli_path_, conversation_history_,
                   config_store_, processing_message_, response_queue_, chat_buffer_>>

\* ConfigDialog::loadConfigFrom with filename chosen in the file dialog:
\* loadSpecificConfig, and after a load the dialog is filled again and closed.
loadConfigFrom(filename) ==
    /\ pc = "ready" /\ config_dialog_
    /\ \E o \in loadConfigFromFileOutcomes(filename), opened \in BOOLEAN :
          LET thrown == o.ret /\ loadCurrentConfigThrows(o.config) IN
          /\ pc' = IF o.crash \/ thrown THEN "crashed" ELSE pc
          /\ config_' = IF o.ret THEN o.config ELSE config_
          /\ fs' = IF o.ret THEN saveLastConfigPath(filename, opened) ELSE fs
          /\ config_dialog_' = ~(o.ret /\ ~thrown)
          /\ workers' = IF o.ret THEN Raced(workers) ELSE workers
          /\ last' = [Call("loadConfigFrom") EXCEPT
                        !.ok = o.ret, !.thr = thrown, !.path = filename]
    /\ UNCHANGED <<configDirEnv, resolves, config_file_, last_config_file_,
                   cli_provider_, active_provider_, cli_path_, conversation_history_,
                   config_store_, processing_message_, response_queue_, chat_buffer_>>

\* The texts typed into the window and the dialog.
GuiMessages == {M_Hello, <<>>}

DialogName == <<"B", "o", "t">>

DialogDescription == <<"H", "e", "l", "p", "s">>

DialogInstructions == <<"B", "e", " ", "b", "r", "i", "e", "f", ".">>

InitGui ==
    /\ SessionNew
    /\ configDirEnv = NoEnv
    /\ resolves = {S_claude}
    /\ fs = [EmptyFs EXCEPT ![ResolveConfigFile(F_AgentConfig, NoEnv)] = File(CfgValid),
                            ![P_Other] = File(CfgNullValues)]

Worker ==
    \E i \in 1..2 : sendMessageBackground(i) \/ sendMessageReturn(i)

NextGui ==
    \/ ClaudeAgentGUI
    \/ \E m \in GuiMessages : onSendMessage(m)
    \/ Worker
    \/ checkResponseQueue
    \/ onClearClicked
    \/ \E t \in ComboTexts : onCliProviderChanged(t)
    \/ onConfigClicked
    \/ onSaveClicked(DialogName, DialogDescription, DialogInstructions)
    \/ \E filename \in {config_file_, P_Other} : loadConfigFrom(filename)

SpecGui == InitGui /\ [][NextGui]_vars

(***************************************************************************)
(* SpecLibrary: the library dialog listing the configuration files.        *)
(***************************************************************************)
S_DotJson == <<".", "j", "s", "o", "n">>

S_UnderscoreConfig == <<"_", "c", "o", "n", "f", "i", "g">>

S_Unknown == <<"U", "n", "k", "n", "o", "w", "n">>

S_NoDescription == <<"N", "o", " ", "d", "e", "s", "c", "r", "i", "p", "t", "i", "o", "n">>

S_Ellipsis == <<".", ".", ".">>

S_CouldNotRead == <<"C", "o", "u", "l", "d", " ", "n", "o", "t", " ", "r", "e", "a", "d", ":", " ">>

S_CurrentDir == <<".">>

S_LegacyDir == <<"c", "o", "n", "f", "i", "g", "s">>

\* The longest description the list shows whole.
MaxDescription == 50

\* A directory, as the file system holds it.
Directory == [exists |-> TRUE, content |-> <<>>, dir |-> TRUE]

IsDirectory(path) == Exists(path) /\ "dir" \in DOMAIN fs[path]

\* std::filesystem::path::filename: what follows the last "/".
filename(path) ==
    LET slashes == {i \in 1..Len(path) : path[i] = "/"} IN
    IF slashes = {} THEN path
    ELSE SubSeq(path, (CHOOSE i \in slashes : \A j \in slashes : j <= i) + 1, Len(path))

\* std::filesystem::path::extension: from the last "." of the file name on, and
\* nothing when the name has no "." or only a leading one.
extension(path) ==
    LET name == filename(path)
        dots == {i \in 2..Len(name) : name[i] = "."}
    IN  IF dots = {} \/ name = <<".", ".">> THEN <<>>
        ELSE SubSeq(name, CHOOSE i \in dots : \A j \in dots : j <= i, Len(name))

\* The entries std::filesystem::directory_iterator(dir) yields.
DirectoryEntries(dir) ==
    {p \in DOMAIN fs : /\ fs[p].exists
                       /\ Len(p) > Len(dir) + 1
                       /\ SubSeq(p, 1, Len(dir) + 1) = dir \o S_Slash
                       /\ filename(p) = SubSeq(p, Len(dir) + 2, Len(p))}

\* The orders in which the entries can come: the iteration order is unspecified.
Listings(entries) ==
    {s \in [1..Cardinality(entries) -> entries] :
        \A i, j \in 1..Cardinality(entries) : s[i] = s[j] => i = j}

\* The body of the loop over config_files: the row appended for one file.
configRow(file) ==
    LET config == parseFromFile(file)
        obj == config.val
        hasName == ObjectHas(obj, K_name)
        hasDesc == ObjectHas(obj, K_description)
        error(what) == [name |-> S_Error, description |-> S_CouldNotRead \o what,
                        filename |-> filename(file)]
        desc == obj.obj[K_description].str
    IN  IF config.thr THEN error(config.what)
        ELSE IF obj.type # "OBJECT" THEN error(WhatNotObject)
        ELSE IF hasName /\ obj.obj[K_name].type # "STRING" THEN error(WhatNotString)
        ELSE IF hasDesc /\ obj.obj[K_description].type # "STRING" THEN error(WhatNotString)
        ELSE [name |-> IF hasName THEN obj.obj[K_name].str ELSE S_Unknown,
              description |->
                  IF ~hasDesc THEN S_NoDescription
                  ELSE IF Len(desc) > MaxDescription
                  THEN SubSeq(desc, 1, MaxDescription) \o S_Ellipsis
                  ELSE desc,
              filename |-> filename(file)]

RECURSIVE configRows(_, _)
configRows(config_files, i) ==
    IF i > Len(config_files) THEN <<>>
    ELSE <<configRow(config_files[i])>> \o configRows(config_files, i + 1)

\* std::string::find(sub) != npos.
Find(s, sub) == \E i \in 1..(Len(s) - Len(sub) + 1) : SubSeq(s, i, i + Len(sub) - 1) = sub

\* The entries of a listing that pass the test of their name, in its order.
RECURSIVE Collected(_, _, _)
Collected(listing, i, legacy) ==
    IF i > Len(listing) THEN <<>>
    ELSE (IF /\ extension(listing[i]) = S_DotJson
             /\ legacy => Find(filename(listing[i]), S_UnderscoreConfig)
          THEN <<listing[i]>> ELSE <<>>)
         \o Collected(listing, i + 1, legacy)

\* ConfigLibraryDialog::refreshConfigList.  directory_iterator throws when its
\* path is not a directory, and nothing here catches that.
refreshConfigList ==
    LET config_dir == ConfigDir(configDirEnv) IN
    /\ pc = "dialog"
    /\ IF \/ ~IsDirectory(S_CurrentDir)
          \/ Exists(config_dir) /\ ~IsDirectory(config_dir)
          \/ Exists(S_LegacyDir) /\ ~IsDirectory(S_LegacyDir)
       THEN /\ config_store_' = <<>>
            /\ last' = [Call("refreshConfigList") EXCEPT !.thr = TRUE]
       ELSE \E current \in Listings(DirectoryEntries(S_CurrentDir)),
               configs \in Listings(IF Exists(config_dir) THEN DirectoryEntries(config_dir)
                                    ELSE {}),
               legacy \in Listings(IF Exists(S_LegacyDir) THEN DirectoryEntries(S_LegacyDir)
                                   ELSE {}) :
               LET config_files == Collected(current, 1, TRUE) \o Collected(configs, 1, FALSE)
                                   \o Collected(legacy, 1, FALSE)
               IN  /\ config_store_' = configRows(config_files, 1)
                   /\ last' = Call("refreshConfigList")
    /\ UNCHANGED <<fs, configDirEnv, resolves, pc, config_file_, last_config_file_,
                   cli_provider_, active_provider_, cli_path_, config_,
                   conversation_history_, guiVars>>

\* A configuration whose description is longer than the list shows.
CfgLongDescription ==
    <<"{", "\"", "n", "a", "m", "e", "\"", ":", "\"", "L", "\"", ",", "\"", "d", "e", "s", "c", "r", "i", "p", "t", "i", "o", "n", "\"", ":", "\"">>
    \o Repeat("d", MaxDescription + LongBy) \o <<CH_DQ, "}">>

F_A == <<"a", ".", "j", "s", "o", "n">>

F_BConfig == <<"b", "_", "c", "o", "n", "f", "i", "g", ".", "j", "s", "o", "n">>

F_Notes == <<"n", "o", "t", "e", "s", ".", "t", "x", "t">>

LibraryDirs == {S_CurrentDir, S_DefaultConfigDir, S_LegacyDir}

LibraryPaths ==
    LibraryDirs \cup {d \o S_Slash \o f : d \in LibraryDirs, f \in {F_A, F_BConfig, F_Notes}}

\* What a configuration directory can hold: a.json of several contents or
\* none, b_config.json or none.
DirectoryContents ==
    {[f \in {F_A, F_BConfig, F_Notes} |->
         IF f = F_A THEN a ELSE IF f = F_BConfig THEN b ELSE NoFile] :
        a \in {NoFile, File(CfgValid), File(CfgInvalidJson), File(CfgNullValues), File(CfgArray)},
        b \in {NoFile, File(CfgLongDescription)}}

\* The current directory holds files of other names and kinds as well.
CurrentDirContents ==
    {[f \in {F_A, F_BConfig, F_Notes} |->
         IF f = F_A THEN a ELSE IF f = F_BConfig THEN b ELSE File(<<>>)] :
        a \in {NoFile, File(CfgValid)},
        b \in {NoFile, File(CfgLongDescription)}}

\* A path of the library: absent, a regular file, or a directory with contents.
DirectoryStates ==
    {[kind |-> "none"], [kind |-> "file"]}
    \cup {[kind |-> "dir", files |-> c] : c \in DirectoryContents}

LibraryFs(states) ==
    [p \in LibraryPaths |->
        IF p \in LibraryDirs
        THEN IF states[p].kind = "dir" THEN Directory
             ELSE IF states[p].kind = "file" THEN File(<<>>)
             ELSE NoFile
        ELSE LET d == CHOOSE d \in LibraryDirs :
                         Len(p) > Len(d) /\ SubSeq(p, 1, Len(d) + 1) = d \o S_Slash
             IN  IF states[d].kind = "dir"
                 THEN states[d].files[SubSeq(p, Len(d) + 2, Len(p))]
                 ELSE NoFile]

InitLibrary ==
    /\ pc = "dialog"
    /\ resolves = {}
    /\ config_file_ = <<>>
    /\ last_config_file_ = <<>>
    /\ cli_provider_ = "AUTO"
    /\ active_provider_ = "AUTO"
    /\ cli_path_ = <<>>
    /\ config_ = JNull
    /\ conversation_history_ = <<>>
    /\ config_store_ = <<>>
    /\ GuiIdle
    /\ last = Call("none")
    /\ configDirEnv \in {NoEnv, EnvSet(S_LegacyDir)}
    /\ \E current \in CurrentDirContents, configs \in DirectoryStates,
          legacy \in DirectoryStates :
          fs = LibraryFs([d \in LibraryDirs |->
                            IF d = S_CurrentDir THEN [kind |-> "dir", files |-> current]
                            ELSE IF d = S_DefaultConfigDir THEN configs
                            ELSE legacy])

NextLibrary == refreshConfigList

SpecLibrary == InitLibrary /\ [][NextLibrary]_vars

(***************************************************************************)
(* The properties.  After a sendToCli step, `last` is the record of that   *)
(* call and HistoryBefore the history the call started from.               *)
(***************************************************************************)
HistoryBefore ==
    IF last.stored
    THEN SubSeq(conversation_history_, 1, Len(conversation_history_) - 1)
    ELSE conversation_history_

\* The context of the windowing rule: the last Min(H, M) entries of history.
WindowedContext(history, M, msg) ==
    IF history = <<>> THEN msg
    ELSE S_PreviousConversation
         \o renderEntries(history, Len(history) - Min(Len(history), M) + 1)
         \o S_CurrentMessage \o S_Human \o msg

\* C1: whenever a send builds a context, with H entries in the history and
\* configured memory depth M, the context holds exactly the most recent
\* min(H, M) entries in chronological order and then the "Current message:"
\* block; with H = 0 the context is exactly the message.
C1_ContextWindow ==
    last.op = "sendToCli" /\ last.ctxBuilt
    => last.context = WindowedContext(HistoryBefore, getConversationMemory(config_).val,
                                      last.message)

\* C2: every send whose process is launched and exits with status 0 appends
\* exactly one entry, made of the caller's message and the reply returned,
\* whatever the reply's text is.
C2_ExitZeroAppends ==
    last.op = "sendToCli" /\ last.status0
    => /\ last.stored
       /\ conversation_history_ # <<>>
       /\ conversation_history_[Len(conversation_history_)]
             = [user |-> last.message, assistant |-> last.text]

ErrorColonPrefix == <<"E","r","r","o","r",":">>

\* C3 as stated: every send returns a string and raises nothing, and every
\* send that fails returns a string prefixed with "Error:".
C3_ErrorColonOnEveryFailure ==
    last.op = "sendToCli"
    => ~last.thr /\ (~last.status0 => StartsWith(last.text, ErrorColonPrefix))

\* C3 amended: every send returns a string and raises nothing; a send that
\* fails returns a string that starts with "Error"; it starts with "Error:"
\* unless an exception was caught inside the dispatch, and then it starts with
\* "Error communicating with " and carries no colon after "Error".
C3_ErrorStringOnFailure ==
    last.op = "sendToCli"
    => /\ ~last.thr
       /\ ~last.status0 => StartsWith(last.text, S_Error)
       /\ ~last.status0 /\ ~last.caught => StartsWith(last.text, ErrorColonPrefix)
       /\ last.caught => /\ StartsWith(last.text, S_ErrorCommunicating)
                         /\ ~StartsWith(last.text, ErrorColonPrefix)
                         /\ ~last.status0

C3_Witness == last.op = "sendToCli" /\ last.caught /\ last.ctxBuilt

\* C4: a send made while cli_path_ is empty returns an error string, builds no
\* context, assembles no command, launches no process and leaves the history
\* and the files as they were.
C4_FailFast ==
    [][cli_path_ = <<>> /\ last'.op = "sendToCli"
       => /\ StartsWith(last'.text, ErrorColonPrefix)
          /\ ~last'.ctxBuilt
          /\ last'.cmd = <<>>
          /\ last'.launched = <<>>
          /\ conversation_history_' = conversation_history_
          /\ fs' = fs]_vars

C4_Witness ==
    last.op = "sendToCli" /\ cli_path_ = <<>> /\ conversation_history_ # <<>>

\* C5: a send that ends in failure leaves the history exactly as it was, and
\* the history grows only by one entry, in a send whose process exited with
\* status 0.
C5_FailureKeepsHistory ==
    [][/\ last'.op = "sendToCli" /\ ~last'.status0
          => conversation_history_' = conversation_history_
       /\ Len(conversation_history_') > Len(conversation_history_)
          => /\ last'.op = "sendToCli" /\ last'.status0
             /\ Len(conversation_history_') = Len(conversation_history_) + 1]_vars

C5_Witness ==
    /\ last.op = "sendToCli" /\ ~last.status0 /\ last.launched # <<>>
    /\ conversation_history_ # <<>>

\* A text of at most 100 characters with no newline and no quote.
Simple(text) ==
    /\ Len(text) <= StdinThreshold
    /\ \A i \in 1..Len(text) : text[i] \notin {CH_NL, CH_SQ, CH_DQ}

\* C6 as stated: for every send that reaches a provider, a simple message goes
\* as the literal trailing argument and any other message goes through
\* standard input behind the "-" sentinel.
C6_RoutingByMessage ==
    last.op = "sendToCli" /\ last.cmd # <<>>
    => IF Simple(last.message)
       THEN ~last.stdin /\ last.cmd[Len(last.cmd)] = last.body
       ELSE last.stdin /\ last.cmd[Len(last.cmd)] = S_Dash

\* C6 amended: the test is made on the assembled body (the context built from
\* the history and the message, with the system prompt before it for Gemini).
\* The body goes through standard input, behind the "-" sentinel, exactly when
\* it is not simple or is itself "-", and otherwise as the literal trailing
\* argument.  So a message that is not simple always goes through standard
\* input, and a simple one goes as the argument when the history is empty and
\* nothing is put before it.
C6_RoutingByBody ==
    last.op = "sendToCli" /\ last.cmd # <<>>
    => /\ last.stdin <=> (~Simple(last.body) \/ last.body = S_Dash)
       /\ last.stdin => /\ last.cmd[Len(last.cmd)] = S_Dash
                        /\ last.launched # <<>> => last.piped
       /\ ~last.stdin => /\ last.cmd[Len(last.cmd)] = last.body
                         /\ ~last.piped
                         /\ ~last.tmpCreated
       /\ ~Simple(last.message) => last.stdin
       /\ /\ Simple(last.message) /\ last.message # S_Dash
          /\ HistoryBefore = <<>>
          /\ ~(active_provider_ = "GEMINI" /\ last.usp)
          => ~last.stdin /\ last.body = last.message

C6_Witness ==
    /\ last.op = "sendToCli" /\ last.message = M_Hello /\ last.stdin /\ last.status0
    /\ active_provider_ = "CLAUDE"

\* C7: the command of a send is [path, "--print", "--append-system-prompt",
\* prompt, body or "-"] for Claude with the system prompt, [path, "--print",
\* body or "-"] for Claude without it, and [path, "--prompt", body or "-"] for
\* Gemini, whose body is the system prompt, "\n\nUser: " and the context when
\* the system prompt is used and the context alone when it is not.
C7_CommandShape ==
    last.op = "sendToCli" /\ last.cmd # <<>>
    => LET trailing == last.cmd[Len(last.cmd)]
           prompt == getSystemPrompt(config_).val
       IN  /\ trailing \in {S_Dash, last.body}
           /\ \/ /\ active_provider_ = "CLAUDE" /\ last.usp
                 /\ last.cmd = <<cli_path_, S_Print, S_AppendSystemPrompt, prompt, trailing>>
                 /\ last.body = last.context
              \/ /\ active_provider_ = "CLAUDE" /\ ~last.usp
                 /\ last.cmd = <<cli_path_, S_Print, trailing>>
                 /\ last.body = last.context
              \/ /\ active_provider_ = "GEMINI"
                 /\ last.cmd = <<cli_path_, S_Prompt, trailing>>
                 /\ last.body = IF last.usp THEN prompt \o S_User \o last.context
                                ELSE last.context

C7_Witness ==
    /\ last.op = "sendToCli" /\ last.cmd # <<>> /\ last.usp
    /\ active_provider_ = "CLAUDE" /\ last.status0

\* The file at path parses to an object / to an object with the four keys.
ParsesToObject(path) ==
    LET parsed == parseFromFile(path) IN ~parsed.thr /\ parsed.val.type = "OBJECT"

HasRequiredKeys(path) ==
    \A i \in 1..Len(required_keys) : ObjectHas(parseFromFile(path).val, required_keys[i])

\* C8: loadConfigFromFile and loadSpecificConfig, on a file that parses and
\* lacks a required key, return false without a crash or an exception and leave
\* the configuration and the files (the last-used pointer among them) as they
\* were; on a file with all four keys they return true and the file's object
\* becomes the configuration.
C8_RejectsMissingKey ==
    [][last'.op \in {"loadConfigFromFile", "loadSpecificConfig"}
       => /\ ParsesToObject(last'.path) /\ ~HasRequiredKeys(last'.path)
             => /\ pc' = "ready" /\ ~last'.ok /\ ~last'.thr
                /\ config_' = config_
                /\ fs' = fs
          /\ ParsesToObject(last'.path) /\ HasRequiredKeys(last'.path)
             => /\ pc' = "ready" /\ last'.ok /\ ~last'.thr
                /\ config_' = parseFromFile(last'.path).val]_vars

\* The texts among the configuration files that are not JSON.
InvalidJsonTexts == {CfgInvalidJson, CfgTrailingText}

\* C9: after a construction that took no last-used configuration, the
\* configuration is the requested file's object if that file exists, is valid
\* JSON and has the four required keys, and the default configuration in every
\* other case.
C9_RequestedFileValidated ==
    last.op = "construct" /\ last.source \in {"file", "default"}
    => IF /\ Exists(config_file_)
          /\ fs[config_file_].content \notin InvalidJsonTexts
          /\ ParsesToObject(config_file_)
          /\ HasRequiredKeys(config_file_)
       THEN config_ = parseFromFile(config_file_).val
       ELSE config_ = createDefaultConfig

\* C10: after a construction that took no last-used configuration, from a path
\* that does not exist or from a file that is not JSON, the session is ready
\* and its name is "Custom AI Agent".
C10_InvalidFallsBack ==
    /\ last.op = "construct" /\ last.source \in {"file", "default"}
    /\ ~Exists(config_file_) \/ fs[config_file_].content \in InvalidJsonTexts
    => pc = "ready" /\ getName(config_) = Ret(DefaultName)

\* The path the last-used pointer holds names a file that exists and parses to
\* an object with the four required keys.
PointerLoadable ==
    LET last_config_path == loadLastConfigPath(last_config_file_) IN
    /\ last_config_path # <<>>
    /\ Exists(last_config_path)
    /\ ParsesToObject(last_config_path)
    /\ HasRequiredKeys(last_config_path)

LoadedByPath(l) == l.op = "loadSpecificConfig" /\ l.ok /\ ~l.thr

\* C12: the last-used pointer is written exactly when a configuration is loaded
\* by path with success: after loadSpecificConfig(p) returns true the pointer
\* file holds p, and no step other than a loadSpecificConfig that returns true
\* (a failed load, loadConfigFromFile, the construction) changes the pointer
\* file.
C12_PointerWrittenOnSuccessOnly ==
    [][/\ pc = "ready" /\ pc' = "ready" /\ LoadedByPath(last')
          => fs'[last_config_file_] = File(last'.path)
       /\ pc = "new" => fs' = fs
       /\ pc = "ready" /\ fs'[last_config_file_] # fs[last_config_file_]
          => pc' = "ready" /\ LoadedByPath(last')]_vars

\* The executables `which` resolves for each provider.
ClaudePaths == {S_claude, S_UsrLocalBinClaude, S_UsrBinClaude}
GeminiPaths == {S_gemini, S_UsrLocalBinGemini, S_UsrBinGemini}

\* The preference is a specific provider whose executable is not found.
SpecificMissing(preference) ==
    \/ preference = "CLAUDE" /\ resolves \cap ClaudePaths = {}
    \/ preference = "GEMINI" /\ resolves \cap GeminiPaths = {}

Resolution(l) == l.op \in {"initializeCli", "switchCliProvider"}

\* C13: when the preference is a specific provider whose executable is not
\* found, initializeCli/switchCliProvider returns false and selects no
\* executable, whatever else is installed; while no executable is selected every
\* send returns an error string and launches nothing, and only a resolution
\* that returns true ends that state.
C13_NoSilentFallback ==
    [][/\ Resolution(last') /\ SpecificMissing(cli_provider_')
          => ~last'.ok /\ cli_path_' = <<>> /\ active_provider_' = "AUTO"
       /\ cli_path_ = <<>> /\ last'.op = "sendToCli"
          => /\ StartsWith(last'.text, S_Error)
             /\ last'.launched = <<>>
             /\ cli_path_' = <<>>
       /\ cli_path_ = <<>> /\ cli_path_' # <<>>
          => Resolution(last') /\ last'.ok]_vars

\* After replies obtained from Claude, a switch to Gemini, which is missing,
\* returned false and left no executable selected.
C13_Witness ==
    /\ last.op = "switchCliProvider" /\ ~last.ok
    /\ cli_provider_ = "GEMINI"
    /\ SpecificMissing("GEMINI")
    /\ resolves \cap ClaudePaths # {}
    /\ conversation_history_ # <<>>
    /\ cli_path_ = <<>>

\* C14: with preference AUTO a resolution selects Claude whenever Claude is
\* available, Gemini only when Claude is not and Gemini is, and nothing
\* (returning false) when neither is.
C14_AutoPriority ==
    Resolution(last) /\ cli_provider_ = "AUTO"
    => /\ resolves \cap ClaudePaths # {}
          => last.ok /\ active_provider_ = "CLAUDE" /\ cli_path_ \in resolves \cap ClaudePaths
       /\ resolves \cap ClaudePaths = {} /\ resolves \cap GeminiPaths # {}
          => last.ok /\ active_provider_ = "GEMINI" /\ cli_path_ \in resolves \cap GeminiPaths
       /\ resolves \cap (ClaudePaths \cup GeminiPaths) = {}
          => ~last.ok /\ active_provider_ = "AUTO" /\ cli_path_ = <<>>

\* Both installed, preference AUTO: Claude was selected.
C14_Witness ==
    /\ Resolution(last) /\ cli_provider_ = "AUTO"
    /\ resolves \cap ClaudePaths # {} /\ resolves \cap GeminiPaths # {}
    /\ active_provider_ = "CLAUDE"

C16_RoundTrip ==
    last.op = "parse" /\ last.from = "toString"
    => ~last.result.thr /\ last.result.val = last.value

(***************************************************************************)
(* The JSON grammar (RFC 8259), as a recogniser: each operator returns the *)
(* position after the construct that starts at pos, or 0 when none does.   *)
(***************************************************************************)
GrammarSpace == {" ", CH_TAB, CH_NL, CH_CR}

ControlChars == {NUL, CH_BS, CH_TAB, CH_NL, CH_VT, CH_FF, CH_CR}

HexDigits == {Digits[i] : i \in 1..Len(Digits)} \cup {"a", "b", "c", "d", "e", "f", "A", "B", "C", "D", "E", "F"}

SimpleEscapes == {CH_DQ, CH_BSL, "/", "b", "f", "n", "r", "t"}

At(text, pos) == IF pos >= 1 /\ pos <= Len(text) THEN text[pos] ELSE NUL

RECURSIVE GrammarWs(_, _)
GrammarWs(text, pos) ==
    IF pos <= Len(text) /\ text[pos] \in GrammarSpace THEN GrammarWs(text, pos + 1) ELSE pos

\* The characters of a string after its opening quote.
RECURSIVE GrammarChars(_, _)
GrammarChars(text, pos) ==
    IF pos > Len(text) THEN 0
    ELSE IF text[pos] = CH_DQ THEN pos + 1
    ELSE IF text[pos] \in ControlChars THEN 0
    ELSE IF text[pos] # CH_BSL THEN GrammarChars(text, pos + 1)
    ELSE IF pos + 1 <= Len(text) /\ text[pos + 1] \in SimpleEscapes
    THEN GrammarChars(text, pos + 2)
    ELSE IF /\ pos + 5 <= Len(text) /\ text[pos + 1] = "u"
            /\ \A i \in 2..5 : text[pos + i] \in HexDigits
    THEN GrammarChars(text, pos + 6)
    ELSE 0

GrammarString(text, pos) ==
    IF At(text, pos) = CH_DQ THEN GrammarChars(text, pos + 1) ELSE 0

RECURSIVE GrammarDigits(_, _)
GrammarDigits(text, pos) ==
    IF pos <= Len(text) /\ IsDigit(text[pos]) THEN GrammarDigits(text, pos + 1) ELSE pos

GrammarNumber(text, pos) ==
    LET p1 == IF At(text, pos) = "-" THEN pos + 1 ELSE pos
        p2 == IF At(text, p1) = "0" THEN p1 + 1 ELSE GrammarDigits(text, p1)
        p3 == IF At(text, p2) = "." THEN GrammarDigits(text, p2 + 1) ELSE p2
        fracOk == At(text, p2) = "." => p3 > p2 + 1
        hasExp == At(text, p3) \in {"e", "E"}
        p4 == IF hasExp /\ At(text, p3 + 1) \in {"+", "-"} THEN p3 + 2 ELSE p3 + 1
        p5 == IF hasExp THEN GrammarDigits(text, p4) ELSE p3
        expOk == hasExp => p5 > p4
    IN  IF p2 > p1 /\ fracOk /\ expOk THEN p5 ELSE 0

GrammarLiteral(text, pos, word) ==
    IF SubSeq(text, pos, Min(Len(text), pos + Len(word) - 1)) = word
    THEN pos + Len(word) ELSE 0

RECURSIVE GrammarValue(_, _)
RECURSIVE GrammarElements(_, _)
RECURSIVE GrammarMembers(_, _)
\* The elements of an array after "[" and white space, up to and with "]".
GrammarElements(text, pos) ==
    LET v == GrammarValue(text, GrammarWs(text, pos))
        p == GrammarWs(text, v)
    IN  IF v = 0 THEN 0
        ELSE IF At(text, p) = "]" THEN p + 1
        ELSE IF At(text, p) = "," THEN GrammarElements(text, p + 1)
        ELSE 0

\* The members of an object after "{" and white space, up to and with "}".
GrammarMembers(text, pos) ==
    LET k == GrammarString(text, GrammarWs(text, pos))
        c == GrammarWs(text, k)
        v == GrammarValue(text, GrammarWs(text, c + 1))
        p == GrammarWs(text, v)
    IN  IF k = 0 \/ At(text, c) # ":" \/ v = 0 THEN 0
        ELSE IF At(text, p) = "}" THEN p + 1
        ELSE IF At(text, p) = "," THEN GrammarMembers(text, p + 1)
        ELSE 0

GrammarValue(text, pos) ==
    LET c == At(text, pos) IN
    IF pos > Len(text) THEN 0
    ELSE IF c = CH_DQ THEN GrammarString(text, pos)
    ELSE IF c = "{"
    THEN IF At(text, GrammarWs(text, pos + 1)) = "}" THEN GrammarWs(text, pos + 1) + 1
         ELSE GrammarMembers(text, pos + 1)
    ELSE IF c = "["
    THEN IF At(text, GrammarWs(text, pos + 1)) = "]" THEN GrammarWs(text, pos + 1) + 1
         ELSE GrammarElements(text, pos + 1)
    ELSE IF c = "t" THEN GrammarLiteral(text, pos, S_true)
    ELSE IF c = "f" THEN GrammarLiteral(text, pos, S_false)
    ELSE IF c = "n" THEN GrammarLiteral(text, pos, S_null)
    ELSE GrammarNumber(text, pos)

\* The text is a JSON text: white space, one value, white space.
ConformsToJson(text) ==
    LET end == GrammarValue(text, GrammarWs(text, 1)) IN
    end # 0 /\ GrammarWs(text, end) = Len(text) + 1

\* C17: parse fails for every text that does not conform to the JSON grammar
\* and returns a value only for a conforming text.
C17_RejectsNonConforming ==
    last.op = "parse" /\ last.from = "text"
    => (last.result.thr <=> ~ConformsToJson(last.text))

\* The members an object text denotes when the last occurrence of a key wins.
LastOccurrence(members) ==
    [k \in {members[i].key : i \in 1..Len(members)} |->
        LET i == CHOOSE i \in 1..Len(members) :
                    /\ members[i].key = k
                    /\ \A j \in (i + 1)..Len(members) : members[j].key # k
        IN  members[i].value]

\* C18: an object text that holds the same key more than once parses, without
\* an error, to an object that has the key once with the value of its last
\* occurrence.
C18_LastKeyWins ==
    \A members \in RepeatedKeyMembers :
        last.op = "parse" /\ last.text = ObjectText(members)
        => /\ ~last.result.thr
           /\ last.result.val = [type |-> "OBJECT", obj |-> LastOccurrence(members)]

\* The text {"a":1,"a":2} was parsed: "a" is the number 2.
C18_Witness ==
    /\ last.op = "parse"
    /\ last.text = <<"{", CH_DQ, "a", CH_DQ, ":", "1", ",", CH_DQ, "a", CH_DQ, ":", "2", "}">>
    /\ ~last.result.thr
    /\ DOMAIN last.result.val.obj = {<<"a">>}
    /\ last.result.val.obj[<<"a">>] = JNumber(2, 0)

\* The decimal form of an integral value: a sign and digits, nothing else.
IntegerForm(v) ==
    IF v.m = 0 THEN <<"0">>
    ELSE (IF v.m < 0 THEN <<"-">> ELSE <<>>) \o NatToText(Abs(v.m)) \o Zeros(v.e)

\* C20: toString of a number is the integer decimal form for every value
\* without a fractional part, those beyond the range of int included, and the
\* default float formatting for a value with a fractional part.
C20_IntegralAsInteger ==
    last.op = "toString" /\ last.value.type = "NUMBER"
    => last.text = IF IsIntegral(last.value) THEN IntegerForm(last.value)
                   ELSE formatDouble(last.value)

\* The *.json files the scan looks for: those of the configuration directory
\* and of the legacy "configs" directory, and the *_config*.json files of the
\* current directory.
FoundFiles ==
    {p \in DirectoryEntries(ConfigDir(configDirEnv)) \cup DirectoryEntries(S_LegacyDir) :
        extension(p) = S_DotJson}
    \cup {p \in DirectoryEntries(S_CurrentDir) :
             extension(p) = S_DotJson /\ Find(filename(p), S_UnderscoreConfig)}

\* The file parses as a configuration object whose name and description, where
\* present, are strings.
ReadableConfig(file) ==
    LET config == parseFromFile(file) IN
    /\ ~config.thr /\ config.val.type = "OBJECT"
    /\ \A key \in {K_name, K_description} :
          ObjectHas(config.val, key) => config.val.obj[key].type = "STRING"

\* C19: the scan of the configuration directory never ends in an exception;
\* every *.json file found has exactly one row; the row shows the name when the
\* file parses as a configuration object and is an "Error" row when parsing or
\* field access fails.
C19_ScanNeverFatal ==
    last.op = "refreshConfigList"
    => /\ ~last.thr
       /\ Len(config_store_) = Cardinality(FoundFiles)
       /\ \A file \in FoundFiles :
             \E i \in 1..Len(config_store_) :
                /\ config_store_[i].filename = filename(file)
                /\ IF ReadableConfig(file)
                   THEN config_store_[i].name = parseFromFile(file).val.obj[K_name].str
                   ELSE config_store_[i].name = S_Error

(***************************************************************************)
(* Command execution in stdin mode.                                        *)
(***************************************************************************)
\* C21: a stdin-mode executeCommand call launches the external process at most
\* once, never writes the prompt down a pipe, and a process that ran to a zero
\* exit status read the prompt from the redirected temporary file.
C21_OneLaunchByRedirect ==
    last.op = "sendToCli" /\ last.stdin
    => /\ Len(last.launched) <= 1
       /\ ~last.piped
       /\ (last.status0 => last.tmpCreated /\ last.redirected)

\* C22: when a stdin-mode executeCommand call has returned, whether the launch
\* failed, the process exited with a non-zero status or it succeeded, the
\* temporary prompt file does not exist.
C22_TempFileRemoved ==
    last.op = "sendToCli" /\ last.stdin => ~last.tmpLeft /\ ~Exists(TempFile)

\* The temporary file was written and the redirected process failed.
C22_Witness ==
    /\ last.op = "sendToCli" /\ last.stdin /\ last.tmpCreated
    /\ last.launched = <<"w", "r">> /\ ~last.status0
    /\ ~Exists(TempFile)

(***************************************************************************)
(* Shell quoting.                                                          *)
(***************************************************************************)
\* The quoting state of the shell's word scanner after the character c.
ShellStep(mode, c) ==
    CASE mode = "plain" -> (IF c = CH_SQ THEN "single"
                            ELSE IF c = CH_DQ THEN "double"
                            ELSE IF c = CH_BSL THEN "plainEscape"
                            ELSE "plain")
      [] mode = "single" -> (IF c = CH_SQ THEN "plain" ELSE "single")
      [] mode = "double" -> (IF c = CH_DQ THEN "plain"
                             ELSE IF c = CH_BSL THEN "doubleEscape"
                             ELSE "double")
      [] mode = "plainEscape" -> "plain"
      [] mode = "doubleEscape" -> "double"

ShellModes == {"plain", "single", "double", "plainEscape", "doubleEscape"}

\* The state after the characters lo..hi of text, entered in state mode (the
\* state after the first half is settled before the second half is scanned).
RECURSIVE ShellModeAfter(_, _, _, _)
ShellModeAfter(text, lo, hi, mode) ==
    IF lo > hi THEN mode
    ELSE IF lo = hi THEN ShellStep(mode, text[lo])
    ELSE LET mid == (lo + hi) \div 2
             half == ShellModeAfter(text, lo, mid, mode)
         IN  IF half \in ShellModes THEN ShellModeAfter(text, mid + 1, hi, half)
             ELSE half

\* Characters the shell acts on when they stand unquoted, and those it acts on
\* inside double quotes.
ShellOperators ==
    {";", "&", "|", "<", ">", "(", ")", "$", "*", "?", "[", "#", "~", CH_NL}

ShellDoubleEscapable == {"$", CH_DQ, CH_BSL, CH_NL}

\* What the scanner makes of the character at i, met in state mode: a "blank"
\* between words, a quoting character that quote removal deletes ("removed"), a
\* character of the word ("literal"), or one the shell interprets ("active").
ShellClass(text, i, mode) ==
    LET c == text[i] IN
    CASE mode = "plain" -> (IF c \in {CH_SQ, CH_DQ, CH_BSL} THEN "removed"
                            ELSE IF c \in {" ", CH_TAB} THEN "blank"
                            ELSE IF c \in ShellOperators THEN "active"
                            ELSE "literal")
      [] mode = "single" -> (IF c = CH_SQ THEN "removed" ELSE "literal")
      [] mode = "double" -> (IF c = CH_DQ THEN "removed"
                             ELSE IF c = "$" THEN "active"
                             ELSE IF c = CH_BSL
                             THEN (IF i < Len(text) /\ text[i + 1] \in ShellDoubleEscapable
                                   THEN "removed" ELSE "literal")
                             ELSE "literal")
      [] mode = "plainEscape" -> (IF c = CH_NL THEN "removed" ELSE "literal")
      [] mode = "doubleEscape" -> (IF c = CH_NL THEN "removed" ELSE "literal")

\* The words of a simple command after quote removal: safe is FALSE when a
\* quote is left open or the shell would interpret a character.
ShellWords(text) ==
    LET n == Len(text)
        class == [i \in 1..n |-> ShellClass(text, i, ShellModeAfter(text, 1, i - 1, "plain"))]
        blanks == SelectSeq([i \in 1..n |-> i], LAMBDA i : class[i] = "blank")
        bound == <<0>> \o blanks \o <<n + 1>>
        runs == SelectSeq([k \in 1..(Len(bound) - 1) |-> k],
                          LAMBDA k : bound[k] + 1 < bound[k + 1])
        word(k) == LET kept == SelectSeq([j \in 1..(bound[k + 1] - bound[k] - 1) |-> bound[k] + j],
                                         LAMBDA i : class[i] = "literal")
                   IN  [j \in 1..Len(kept) |-> text[kept[j]]]
    IN  [safe |-> /\ ShellModeAfter(text, 1, n, "plain") = "plain"
                  /\ \A i \in 1..n : class[i] # "active",
         words |-> [k \in 1..Len(runs) |-> word(runs[k])]]

\* The command string without the redirection executeCommand appends to it.
CommandPart(call) ==
    LET redirect == S_Redirect \o TempFile \o <<CH_DQ>>
        cut == Len(call.shell) - Len(redirect)
    IN  IF call.tmpCreated /\ cut >= 0 /\ SubSeq(call.shell, cut + 1, Len(call.shell)) = redirect
        THEN SubSeq(call.shell, 1, cut)
        ELSE call.shell

\* C23: the shell reads the command string executeCommand builds as exactly the
\* words of the command vector, each argument one word with its content
\* unchanged, whatever quotes, blanks or shell characters the arguments hold.
C23_ShellSafe ==
    last.op = "executeCommand" /\ last.shell # <<>>
    => ShellWords(CommandPart(last)) = [safe |-> TRUE, words |-> last.cmd]

\* A process was started for a command with a single quote in an argument.
C23_Witness ==
    /\ last.op = "executeCommand" /\ last.launched # <<>>
    /\ \E i \in 1..Len(last.cmd) : Contains(last.cmd[i], CH_SQ)
    /\ ShellWords(CommandPart(last)).words = last.cmd

(***************************************************************************)
(* The window and its worker thread.                                       *)
(***************************************************************************)
\* C24: at most one background dispatch exists at any time and only while
\* processing_message_ is set; no step starts a thread while the flag is set (a
\* send requested then is ignored); the flag is cleared only by
\* checkResponseQueue, in the step that takes the reply off the queue, when the
\* worker has ended.
C24_OneDispatchInFlight ==
    /\ [](Len(workers) <= 1 /\ (workers # <<>> => processing_message_))
    /\ [][/\ processing_message_ => Len(workers') <= Len(workers)
          /\ processing_message_ /\ ~processing_message_'
             => /\ last'.op = "checkResponseQueue"
                /\ workers = <<>>
                /\ response_queue_ # <<>>
                /\ response_queue_' = Tail(response_queue_)]_vars

\* A send was requested, and ignored, while a dispatch was in flight.
C24_Witness ==
    /\ last.op = "onSendMessage" /\ ~last.ok /\ last.message # <<>>
    /\ processing_message_ /\ Len(workers) = 1

\* C25: every accepted send is answered exactly once: the queue never holds
\* more than one reply, a reply is on the display once the flag is clear, and
\* the program never stops with an accepted send still unanswered.
C25_AnsweredOnce ==
    /\ Len(response_queue_) <= 1
    /\ (processing_message_ => pc # "crashed")
    /\ (pc = "ready" /\ ~processing_message_
        => workers = <<>> /\ response_queue_ = <<>>)

\* The handlers of the foreground thread that write to the session.
ForegroundWriters ==
    {"onClearClicked", "onCliProviderChanged", "onSaveClicked", "loadConfigFrom"}

\* C26: while a dispatch is in flight on a worker thread, no handler of the
\* foreground thread changes the history, the provider preference, the active
\* provider, the executable path or the configuration.
C26_NoForegroundWriteInFlight ==
    [][workers # <<>> /\ last'.op \in ForegroundWriters
       => UNCHANGED <<conversation_history_, cli_provider_, active_provider_,
                      cli_path_, config_>>]_vars

(***************************************************************************)
(* The session's history, provider and configuration as invariants.        *)
(***************************************************************************)
\* C27: every step leaves the conversation history as it was, or appends one
\* entry at its end (a send whose reply was stored), or removes all entries
\* (clearConversationHistory); loads, setters, the save and provider switches
\* leave it unchanged.
C27_AppendOnly ==
    [][\/ conversation_history_' = conversation_history_
       \/ /\ last'.op = "sendToCli" /\ last'.stored
          /\ conversation_history_' =
                Append(conversation_history_,
                       [user |-> last'.message, assistant |-> last'.text])
       \/ /\ last'.op = "clearConversationHistory"
          /\ conversation_history_' = <<>>]_vars

\* Two exchanges are stored and a setter has just run.
C27_Witness ==
    /\ Len(conversation_history_) = 2
    /\ last.op = "setConversationMemory"

\* C28: when the preference is a specific provider, a resolution
\* (initializeCli/switchCliProvider) hands only that provider's paths to
\* `which`, never a path of the other provider.
C28_OnlyPreferredProbed ==
    Resolution(last)
    => /\ cli_provider_ = "CLAUDE" => \A i \in 1..Len(last.probed) : last.probed[i] \in ClaudePaths
       /\ cli_provider_ = "GEMINI" => \A i \in 1..Len(last.probed) : last.probed[i] \in GeminiPaths

\* C29: at every moment of a session the executable path is non-empty exactly
\* when the active provider is CLAUDE or GEMINI (AUTO exactly when nothing is
\* resolved) and the path is one of the active provider's paths; a switch that
\* returned false left nothing selected, and no send returns
\* "Error: Unknown CLI provider".
C29_PathMatchesActive ==
    /\ cli_path_ # <<>> <=> active_provider_ \in {"CLAUDE", "GEMINI"}
    /\ cli_path_ = <<>> <=> active_provider_ = "AUTO"
    /\ active_provider_ = "CLAUDE" => cli_path_ \in resolves \cap ClaudePaths
    /\ active_provider_ = "GEMINI" => cli_path_ \in resolves \cap GeminiPaths
    /\ last.op = "switchCliProvider" /\ ~last.ok
       => cli_path_ = <<>> /\ active_provider_ = "AUTO"
    /\ last.op = "sendToCli" => last.text # S_UnknownProvider

\* A switch to Gemini, which is missing, has just failed although Claude is
\* installed and had answered before: nothing is selected any more.
C29_Witness ==
    /\ last.op = "switchCliProvider" /\ ~last.ok
    /\ resolves \cap ClaudePaths # {} /\ resolves \cap GeminiPaths = {}
    /\ conversation_history_ # <<>>
    /\ cli_path_ = <<>> /\ active_provider_ = "AUTO"

\* C30: once a session is constructed its active configuration is a JSON
\* Object, whatever the files read held, and no setter meets a root that is
\* not one.
C30_ConfigIsObject ==
    /\ pc = "ready" => config_.type = "OBJECT"
    /\ ~last.undefined

====
